---- MODULE Spec2Model ----
(***************************************************************************)
(* Model of the video-compression service: the BullMQ job queue            *)
(* (lib/queue), the compression worker and its supervisor                  *)
(* (workers/compression-worker), the per-job pipeline (lib/video-          *)
(* compressor) and the webhook dispatcher (lib/webhook).                   *)
(*                                                                         *)
(* Several specifications share the variables:                             *)
(*   SpecWorker    the worker process, its supervisor and the broker       *)
(*   SpecQueue     the intake side: concurrent enqueueJob calls            *)
(*   SpecPipeline  one attempt of processJob in detail, with the progress  *)
(*                 callbacks the pipeline fires without awaiting           *)
(*   SpecThrottle  one attempt with many ffmpeg progress events, seen      *)
(*                 through the webhook throttler                           *)
(*   SpecRecovery  a started worker with a job through broker outages      *)
(*   SpecDownload  downloadVideo with its URL policy and redirects         *)
(*   SpecOutputs   one attempt seen through the files it keeps and the     *)
(*                 result it builds                                        *)
(*   SpecValidate  validateInputVideo on one probed source                 *)
(*   SpecAdmin     the admin API's retry and cancel next to a worker       *)
(*   SpecRateLimit the middleware's per-IP request counter                 *)
(*   SpecRange     the content route's answer to a Range header            *)
(*   SpecShouldSend  WebhookThrottler.shouldSend with the clock in ms      *)
(*   SpecWebhook   one sendWebhook dispatch with its retries and delays    *)
(*   SpecMaster    convertToHLSStreaming and the master playlist it writes *)
(* LiveSpecShutdown and LiveSpecRecovery add the fairness the event loop   *)
(* and the broker give to SpecWorker and SpecRecovery.                     *)
(***************************************************************************)
EXTENDS Integers, Sequences, FiniteSets, TLC

\* ------------------------------------------------------------------ bounds
NumJobs == 1                \* jobs in the broker in SpecWorker
MaxWorkers == 2             \* Worker instances that exist at once
MaxOutages == 1             \* broker outages in one run of SpecWorker
MaxRecoveryOutages == 2     \* broker outages in one run of SpecRecovery
MaxFaults == 1              \* uncaughtException / unhandledRejection events
MaxRestartAttempts == 2     \* cap of the restartAttempts counter
NumCallers == 2             \* concurrent enqueueJob calls in SpecQueue
NumPostIds == 1             \* post ids submitted in SpecQueue
MaxClock == 1               \* last value of Date.now() in SpecQueue
MaxCallbacks == 2           \* progress callbacks in flight in SpecPipeline
MaxProgressEvents == 2      \* ffmpeg progress events of one attempt
MaxRedirects == 2           \* redirects one downloadVideo call follows in a run
MaxStuck == 1               \* files whose deletion fails in one cleanup
RawEvents == 30             \* ffmpeg progress events of an attempt in SpecThrottle
MaxAdminOutages == 3        \* broker outages in one run of SpecAdmin

\* ------------------------------------------------------- program constants
WORKER_RESTART_DELAY_BASE == 5000
WORKER_RESTART_DELAY_MAX == 60000
WORKER_MAX_RESTART_ATTEMPTS == 0
maxInitialRetries == 10
JobAttempts == 3            \* attempts: 3 of the job options
MaxStalledCount == 1        \* BullMQ default, the Worker options set none
ParallelLimit == 1          \* cfg.parallel_limit || 1
WEBHOOK_MAX_RETRIES == 3
NumQualities == 4           \* qualities = ['480p', '360p', '240p', '144p']
progressPerQuality == 12

JobIds == 1 .. NumJobs
WorkerIds == 1 .. MaxWorkers
NoJob == 0
NoWorker == 0
NoEntry == -1               \* the throttler's maps hold no entry for the job
NoIdentity == <<>>
\* the owner of a lock whose Worker instance is gone from the process
Departed == MaxWorkers + 1

Callers == 1 .. NumCallers
PostIds == 1 .. NumPostIds
\* `job_${postId}_${timestamp}`
QueueJobIds == PostIds \X (0 .. MaxClock)
\* progress.percent of fluent-ffmpeg: the time mark over the probed duration,
\* an estimate that compressVideo rounds and does not clamp.
FfmpegPercents == {4, 100, 110}
\* progress.percent over one transcode from its start to its end
RawPercents == {0, 100}

VARIABLES
  \* the broker (Redis, through BullMQ)
  brokerUp,          \* the Redis server is reachable
  jobState,          \* job -> absent / waiting / active / delayed / completed / failed
  attemptsMade,      \* job -> failed attempts counted by the retry policy
  attemptsStarted,   \* job -> times the job was claimed
  jobProgress,       \* job -> stored progress percent
  returnvalue,       \* job -> none / success / failure (JobResult.success)
  failedReason,      \* job -> error text of a failed job
  lockOwner,         \* job -> Worker instance holding the job's lock
  stalledCount,      \* job -> times the job was recovered from a stall
  \* module state of the worker process
  isShuttingDown, isRestartScheduled, isRestarting,
  worker,            \* the module variable: a Worker instance or NoWorker (null)
  restartAttempts,
  restartTimeoutId,  \* TRUE when the variable holds a timer
  restartDelay,      \* delay of the timer set last
  exitCode,          \* -1 while the process runs
  \* Worker instances and coroutines of the worker process
  wState,            \* instance -> none / running / paused / closing / closed
  wJob,              \* instance -> job of the attempt it runs, or NoJob
  wPhase,            \* instance -> idle / fetched / processing
  connLost,          \* instance -> its Redis connection is down
  pendingTimers,     \* restart timers set and not yet fired or cleared
  restartsRunning,   \* restart callbacks inside await startWorker()
  srPc, srWorker,    \* scheduleWorkerRestart at await worker.close()
  startupPc, startupAttempt,   \* startWithRetry (attempt is 0 once the loop ended)
  sdPc, sdWorker,    \* gracefulShutdown
  \* webhooks sent by the attempts
  failureWebhooks, completionWebhooks,
  \* environment
  outages, faults,
  duplicateSkipped,  \* a scheduleWorkerRestart call was dropped as a duplicate
  \* lib/queue: enqueueJob calls of the API process
  now,               \* Date.now()
  epc,               \* caller -> idle / getJob / getState / add / count / done
  eJobId,            \* caller -> the jobId it computed
  eResult,           \* caller -> none / success / rejected / timeout
  \* one attempt of processJob
  pJob,              \* the job of the attempt
  pStage,            \* idle / queued / hls / thumbnail / complete / completion /
                     \* failure / returned / done
  pStep,             \* update / http / run within the stage
  pAttempt,          \* attempt of the sendWebhook the handler awaits, or 0
  pResult,           \* none / success / failure (JobResult.success)
  wantThumbnail,     \* job.data.wpThumbnailUrl is set
  cvPc,              \* compressVideoJob: source / download / validate / transcode / done
  qualityIndex, anySucceeded,
  progressEvents,    \* ffmpeg progress events seen
  ffmpegPercent,     \* percent of the last event of the running transcode
  callbacks,         \* progressCallback calls in flight, oldest first:
                     \* attempt 0 awaits updateJobProgress, n > 0 is in
                     \* attempt n of sendWebhook
  lastProgress, lastSentRecent,   \* WebhookThrottler entry of the job
  delivered,         \* webhooks that reached the endpoint, in order
  \* downloadVideo
  dlPc,              \* idle / validate / request / done
  dlUrl,             \* the URL of the running downloadVideo call
  dlAllow,           \* cfg.allowed_download_domains
  dlRedirects,       \* redirects followed
  dlConnections,     \* hosts a request was opened to
  dlFile,            \* localPath exists under the uploads root
  dlResult,          \* none / success / the error of DownloadResult
  \* one attempt seen through the files of the job's layout directory and
  \* the JobResult it builds
  oPc,               \* idle / cleanup / source / validate / transcode / hls /
                     \* thumbnail / complete / done
  oFiles,            \* file of the layout directory -> absent / old / new
  oStuck,            \* files whose deletion fails
  oIndex,            \* qualityIndex of the compression loop (1-based)
  oResults,          \* quality -> none / ok / failed (compressionResults)
  oUrls,             \* qualities with an MP4 URL in result.urls
  oHls,              \* none / ok / failed: the HLS stage
  oHlsUrls,          \* keys of result.hlsUrls
  oThumb,            \* none / ok / failed: the thumbnail stage
  oThumbUrl,         \* result.thumbnailUrl is set
  oWantThumb,        \* job.data.wpThumbnailUrl is set
  oOutcome,          \* none / success / failure (JobResult.success)
  oWebhook,          \* none / completion / failure: the terminal webhook sent
  \* validateInputVideo
  vInput,            \* the probed source: size, duration, codec, container
  vResult,           \* none / valid / the error_code
  \* the admin actions of POST /api/webhook
  adminCall,         \* the last call: action, job, the job's state before, answer
  \* middleware: the rate limit of one client IP
  rlNow,             \* Date.now()
  rlEntry,           \* ipRequestCounts.get(clientIP): count and windowStart
  rlAdmitted,        \* instant -> requests of the IP passed on at that instant
  rlStatus,          \* status of the last answer of the middleware: none / 200 / 429
  rlRetryAfter,      \* Retry-After of the last 429, in seconds
  \* GET /content/...: one request
  rgSize,            \* stats.size
  rgStreamable,      \* the extension is one of .mp4 .webm .ts
  rgHeader,          \* the two digit groups of the Range header
  rgResponse,        \* the answer: status, Content-Length, Content-Range
  \* WebhookThrottler.shouldSend on one entry
  tsEntry,           \* the job's lastProgress / lastSentTime, or no entry
  tsNow,             \* Date.now()
  tsProgress,        \* newProgress
  tsResult,          \* none / allow / skip
  \* sendWebhook: one dispatch
  whUrl,             \* webhookUrl || cfg.wordpress_webhook_url is set
  whPc,              \* idle / post / sleep / done
  whAttempt,         \* attempt of the for loop
  whLog,             \* what the dispatch did, in order: POSTs with the
                     \* status they got, sleeps with their delay
  whResult,          \* none / success / failure (WebhookResponse.success)
  \* convertToHLSStreaming: one call
  mpExists,          \* qualities whose compressed MP4 exists
  mpIndex,           \* position of the loop over the qualities
  mpOutcome,         \* quality -> none / skipped / ok / empty / error:
                     \* what became of its segmentation
  mpAvailable,       \* availableQualities
  mpMaster,          \* master.m3u8: whether it was written, and its variants
  mpResult           \* none / ok / failed (HLSConversionResult.success)

brokerVars == <<brokerUp, jobState, attemptsMade, attemptsStarted, jobProgress,
                returnvalue, failedReason, lockOwner, stalledCount>>
flagVars == <<isShuttingDown, isRestartScheduled, isRestarting, worker,
              restartAttempts, restartTimeoutId, restartDelay, exitCode>>
instVars == <<wState, wJob, wPhase, connLost>>
coVars == <<pendingTimers, restartsRunning, srPc, srWorker, startupPc,
            startupAttempt, sdPc, sdWorker>>
hookVars == <<failureWebhooks, completionWebhooks>>
envVars == <<outages, faults>>
logVars == <<duplicateSkipped>>
queueVars == <<now, epc, eJobId, eResult>>
mainVars == <<pJob, pStage, pStep, pAttempt, pResult, wantThumbnail>>
cvVars == <<cvPc, qualityIndex, anySucceeded, progressEvents, ffmpegPercent>>
throttlerVars == <<lastProgress, lastSentRecent>>
pipeVars == <<mainVars, cvVars, callbacks, throttlerVars, delivered>>
dlVars == <<dlPc, dlUrl, dlAllow, dlRedirects, dlConnections, dlFile, dlResult>>
outVars == <<oPc, oFiles, oStuck, oIndex, oResults, oUrls, oHls, oHlsUrls, oThumb,
             oThumbUrl, oWantThumb, oOutcome, oWebhook>>
valVars == <<vInput, vResult>>
adminVars == <<adminCall>>
rlVars == <<rlNow, rlEntry, rlAdmitted, rlStatus, rlRetryAfter>>
rgVars == <<rgSize, rgStreamable, rgHeader, rgResponse>>
tsVars == <<tsEntry, tsNow, tsProgress, tsResult>>
whVars == <<whUrl, whPc, whAttempt, whLog, whResult>>
mpVars == <<mpExists, mpIndex, mpOutcome, mpAvailable, mpMaster, mpResult>>
extVars == <<whVars, mpVars>>
apiVars == <<adminVars, rlVars, rgVars, tsVars, extVars>>
ioVars == <<dlVars, outVars, valVars, apiVars>>
restVars == <<queueVars, pipeVars, ioVars>>
processVars == <<flagVars, instVars, coVars, envVars, logVars>>
vars == <<brokerVars, flagVars, instVars, coVars, hookVars, envVars, logVars,
          restVars>>

Min(a, b) == IF a < b THEN a ELSE b
Max(a, b) == IF a > b THEN a ELSE b

RECURSIVE Pow2(_)
Pow2(n) == IF n = 0 THEN 1 ELSE 2 * Pow2(n - 1)

Alive == exitCode = -1

\* ---------------------------------------------------------------- Init
InitBroker ==
  /\ brokerUp = TRUE
  /\ jobState = [j \in JobIds |-> "waiting"]
  /\ attemptsMade = [j \in JobIds |-> 0]
  /\ attemptsStarted = [j \in JobIds |-> 0]
  /\ jobProgress = [j \in JobIds |-> 0]
  /\ returnvalue = [j \in JobIds |-> "none"]
  /\ failedReason = [j \in JobIds |-> "none"]
  /\ lockOwner = [j \in JobIds |-> NoWorker]
  /\ stalledCount = [j \in JobIds |-> 0]

\* The module variables as declared, and startWithRetry() inside its first
\* call of startWorker, at await initializeFfmpeg().
InitProcess ==
  /\ isShuttingDown = FALSE
  /\ isRestartScheduled = FALSE
  /\ isRestarting = FALSE
  /\ worker = NoWorker
  /\ restartAttempts = 0
  /\ restartTimeoutId = FALSE
  /\ restartDelay = 0
  /\ exitCode = -1
  /\ wState = [i \in WorkerIds |-> "none"]
  /\ wJob = [i \in WorkerIds |-> NoJob]
  /\ wPhase = [i \in WorkerIds |-> "idle"]
  /\ connLost = [i \in WorkerIds |-> FALSE]
  /\ pendingTimers = 0
  /\ restartsRunning = 0
  /\ srPc = "idle"
  /\ srWorker = NoWorker
  /\ startupPc = "starting"
  /\ startupAttempt = 1
  /\ sdPc = "idle"
  /\ sdWorker = NoWorker
  /\ failureWebhooks = [j \in JobIds |-> 0]
  /\ completionWebhooks = [j \in JobIds |-> 0]
  /\ outages = 0
  /\ faults = 0
  /\ duplicateSkipped = FALSE

\* No enqueueJob call is under way.
InitQueueIdle ==
  /\ now = 0
  /\ epc = [c \in Callers |-> "idle"]
  /\ eJobId = [c \in Callers |-> NoIdentity]
  /\ eResult = [c \in Callers |-> "none"]

\* No attempt is followed in detail.
InitPipelineIdle ==
  /\ pJob = NoJob
  /\ pStage = "idle"
  /\ pStep = "run"
  /\ pAttempt = 0
  /\ pResult = "none"
  /\ wantThumbnail = FALSE
  /\ cvPc = "done"
  /\ qualityIndex = 0
  /\ anySucceeded = FALSE
  /\ progressEvents = 0
  /\ ffmpegPercent = 0
  /\ callbacks = <<>>
  /\ lastProgress = NoEntry
  /\ lastSentRecent = FALSE
  /\ delivered = <<>>

\* No downloadVideo call is running.
InitDownloadIdle ==
  /\ dlPc = "idle"
  /\ dlUrl = [scheme |-> "none",
              host |-> [kind |-> "name", octets |-> <<>>, labels |-> <<>>]]
  /\ dlAllow = {}
  /\ dlRedirects = 0
  /\ dlConnections = {}
  /\ dlFile = FALSE
  /\ dlResult = "none"

qualities == <<"480p", "360p", "240p", "144p">>
Quality == {qualities[k] : k \in 1 .. NumQualities}

\* The files an attempt keeps in the job's layout directory (buildPaths,
\* the hls directory, the thumbnail names cleanupOldOutputs looks for).
CompressedFile ==
  [q \in Quality |->
     CASE q = "480p" -> "compressed_480p.mp4"
       [] q = "360p" -> "compressed_360p.mp4"
       [] q = "240p" -> "compressed_240p.mp4"
       [] OTHER -> "compressed_144p.mp4"]
LayoutFiles ==
  {"original.mp4", "hls", "thumbnail.webp", "thumbnail.jpg"}
    \cup {CompressedFile[q] : q \in Quality}

\* No attempt is running; the layout directory is empty.
InitOutputsIdle ==
  /\ oPc = "idle"
  /\ oFiles = [f \in LayoutFiles |-> "absent"]
  /\ oStuck = {}
  /\ oIndex = 0
  /\ oResults = [q \in Quality |-> "none"]
  /\ oUrls = {}
  /\ oHls = "none"
  /\ oHlsUrls = {}
  /\ oThumb = "none"
  /\ oThumbUrl = FALSE
  /\ oWantThumb = FALSE
  /\ oOutcome = "none"
  /\ oWebhook = "none"

\* No validateInputVideo call was made.
InitValidateIdle ==
  /\ vInput = [exists |-> FALSE, size |-> 0, durationMs |-> 0, codec |-> "none",
               container |-> "none", corrupted |-> FALSE]
  /\ vResult = "none"

\* No admin action was called.
InitAdminIdle ==
  adminCall = [action |-> "none", job |-> NoJob, was |-> "none", answer |-> FALSE]

\* The middleware has seen no request of the client IP.
InitRateIdle ==
  /\ rlNow = 0
  /\ rlEntry = [count |-> 0, windowStart |-> -1]
  /\ rlAdmitted = <<>>
  /\ rlStatus = "none"
  /\ rlRetryAfter = 0

\* No content request was made.
InitRangeIdle ==
  /\ rgSize = 0
  /\ rgStreamable = FALSE
  /\ rgHeader = [unit |-> "none", first |-> <<>>, last |-> <<>>]
  /\ rgResponse = [status |-> 0, length |-> 0, from |-> 0, to |-> 0, of |-> 0]

\* The throttler was not asked.
InitShouldSendIdle ==
  /\ tsEntry = [progress |-> NoEntry, time |-> 0]
  /\ tsNow = 0
  /\ tsProgress = 0
  /\ tsResult = "none"

\* sendWebhook was not called.
InitWebhookIdle ==
  /\ whUrl = FALSE
  /\ whPc = "idle"
  /\ whAttempt = 0
  /\ whLog = <<>>
  /\ whResult = "none"

\* convertToHLSStreaming was not called.
InitMasterIdle ==
  /\ mpExists = {}
  /\ mpIndex = 0
  /\ mpOutcome = [q \in Quality |-> "none"]
  /\ mpAvailable = <<>>
  /\ mpMaster = [written |-> FALSE, variants |-> <<>>]
  /\ mpResult = "none"

InitExtIdle == InitWebhookIdle /\ InitMasterIdle

InitApiIdle ==
  InitAdminIdle /\ InitRateIdle /\ InitRangeIdle /\ InitShouldSendIdle /\ InitExtIdle

InitIoIdle == InitDownloadIdle /\ InitOutputsIdle /\ InitValidateIdle /\ InitApiIdle

InitWorker ==
  InitBroker /\ InitProcess /\ InitQueueIdle /\ InitIoIdle /\ InitPipelineIdle

\* ------------------------------------------------- the supervisor's code
calculateRestartDelay(attempts) ==
  Min(WORKER_RESTART_DELAY_BASE * Pow2(Min(attempts, 4)), WORKER_RESTART_DELAY_MAX)

\* worker.close(): the instance stops fetching and its promise settles once
\* the jobs it runs have finished (close is called without force).
CloseCalled(ws, i) ==
  [ws EXCEPT ![i] = IF @ \in {"running", "paused"} THEN "closing" ELSE @]

\* scheduleWorkerRestart() past its two guards: the attempt limit, the flag,
\* the counter and the delay, then await worker.close() or, with no worker,
\* the timer.
ScheduleWorkerRestartBody(scheduled) ==
  IF WORKER_MAX_RESTART_ATTEMPTS > 0
     /\ restartAttempts >= WORKER_MAX_RESTART_ATTEMPTS
  THEN /\ exitCode' = 1
       /\ isRestartScheduled' = scheduled
       /\ UNCHANGED <<restartAttempts, restartDelay, wState, srPc, srWorker,
                      restartTimeoutId, pendingTimers, duplicateSkipped>>
  ELSE /\ isRestartScheduled' = TRUE
       /\ restartAttempts' = restartAttempts + 1
       /\ restartDelay' = calculateRestartDelay(restartAttempts + 1)
       /\ UNCHANGED <<exitCode, duplicateSkipped>>
       /\ IF worker # NoWorker
          THEN \* await worker.close()
               /\ wState' = CloseCalled(wState, worker)
               /\ srPc' = "closing"
               /\ srWorker' = worker
               /\ UNCHANGED <<restartTimeoutId, pendingTimers>>
          ELSE \* clearTimeout(restartTimeoutId); restartTimeoutId = setTimeout(..)
               /\ pendingTimers' = (IF restartTimeoutId THEN pendingTimers - 1
                                    ELSE pendingTimers) + 1
               /\ restartTimeoutId' = TRUE
               /\ UNCHANGED <<wState, srPc, srWorker>>

\* scheduleWorkerRestart() without the isRestartScheduled || isRestarting
\* guard.
ScheduleWorkerRestartUnguarded(scheduled, restarting) ==
  IF isShuttingDown
  THEN /\ isRestartScheduled' = scheduled
       /\ UNCHANGED <<restartAttempts, restartDelay, wState, srPc, srWorker,
                      restartTimeoutId, pendingTimers, exitCode,
                      duplicateSkipped>>
  ELSE ScheduleWorkerRestartBody(scheduled)

\* scheduleWorkerRestart() from its entry to its first await, or to its end
\* when there is no worker to close. scheduled and restarting are the values
\* of isRestartScheduled and isRestarting on entry.
ScheduleWorkerRestart(scheduled, restarting) ==
  IF isShuttingDown
  THEN /\ isRestartScheduled' = scheduled
       /\ UNCHANGED <<restartAttempts, restartDelay, wState, srPc, srWorker,
                      restartTimeoutId, pendingTimers, exitCode,
                      duplicateSkipped>>
  ELSE IF scheduled \/ restarting
  THEN \* 'Restart already scheduled or in progress, skipping duplicate request'
       /\ isRestartScheduled' = scheduled
       /\ duplicateSkipped' = TRUE
       /\ UNCHANGED <<restartAttempts, restartDelay, wState, srPc, srWorker,
                      restartTimeoutId, pendingTimers, exitCode>>
  ELSE ScheduleWorkerRestartBody(scheduled)

\* What scheduleWorkerRestart leaves alone.
SrFrame == UNCHANGED <<brokerVars, isShuttingDown, isRestarting, worker, wJob,
                       wPhase, connLost, restartsRunning, startupPc,
                       startupAttempt, sdPc, sdWorker, hookVars, outages,
                       restVars>>

\* scheduleWorkerRestart after await worker.close() resolved, without its
\* setTimeout.
RestartAfterCloseNoTimer ==
  /\ Alive /\ srPc = "closing" /\ wState[srWorker] = "closed"
  /\ worker' = NoWorker
  /\ srPc' = "idle" /\ srWorker' = NoWorker
  /\ UNCHANGED <<brokerVars, isShuttingDown, isRestartScheduled, isRestarting,
                 restartAttempts, restartTimeoutId, restartDelay, exitCode,
                 instVars, pendingTimers, restartsRunning, startupPc,
                 startupAttempt, sdPc, sdWorker, hookVars, envVars, logVars,
                 restVars>>

\* scheduleWorkerRestart after await worker.close() resolved: worker = null,
\* then the timer is set.
RestartAfterClose ==
  /\ Alive /\ srPc = "closing" /\ wState[srWorker] = "closed"
  /\ worker' = NoWorker
  /\ pendingTimers' = (IF restartTimeoutId THEN pendingTimers - 1
                       ELSE pendingTimers) + 1
  /\ restartTimeoutId' = TRUE
  /\ srPc' = "idle" /\ srWorker' = NoWorker
  /\ UNCHANGED <<brokerVars, isShuttingDown, isRestartScheduled, isRestarting,
                 restartAttempts, restartDelay, exitCode, instVars,
                 restartsRunning, startupPc, startupAttempt, sdPc, sdWorker,
                 hookVars, envVars, logVars, restVars>>

\* scheduleWorkerRestart when worker.close() rejected: the catch logs, worker
\* keeps the old instance, and the timer is set all the same.
RestartCloseFailed ==
  /\ Alive /\ srPc = "closing" /\ wState[srWorker] = "failed"
  /\ pendingTimers' = (IF restartTimeoutId THEN pendingTimers - 1
                       ELSE pendingTimers) + 1
  /\ restartTimeoutId' = TRUE
  /\ srPc' = "idle" /\ srWorker' = NoWorker
  /\ UNCHANGED <<brokerVars, isShuttingDown, isRestartScheduled, isRestarting,
                 worker, restartAttempts, restartDelay, exitCode, instVars,
                 restartsRunning, startupPc, startupAttempt, sdPc, sdWorker,
                 hookVars, envVars, logVars, restVars>>

\* An instance slot new Worker(...) can take: never used, or torn down with
\* no attempt left in it and no coroutine still holding it.
FreeWorkerIds ==
  {i \in WorkerIds :
     /\ wState[i] \in {"none", "closed", "failed"}
     /\ wJob[i] = NoJob
     /\ i \notin {worker, srWorker, sdWorker}}

NewWorkerId == CHOOSE i \in FreeWorkerIds : \A k \in FreeWorkerIds : i <= k

\* The tail of startWorker() after await initializeFfmpeg(): the Worker is
\* constructed, the handlers are attached, restartAttempts = 0. A lock the
\* slot's former instance left behind stays in the broker until it expires.
WorkerConstructed ==
  /\ FreeWorkerIds # {}
  /\ worker' = NewWorkerId
  /\ wState' = [wState EXCEPT ![NewWorkerId] = "running"]
  /\ wJob' = [wJob EXCEPT ![NewWorkerId] = NoJob]
  /\ wPhase' = [wPhase EXCEPT ![NewWorkerId] = "idle"]
  /\ connLost' = [connLost EXCEPT ![NewWorkerId] = ~brokerUp]
  /\ lockOwner' = [j \in DOMAIN lockOwner |->
                    IF lockOwner[j] = NewWorkerId THEN Departed ELSE lockOwner[j]]
  /\ restartAttempts' = 0

\* The restart timer fires: restartTimeoutId = null; under shutdown the
\* callback only clears isRestartScheduled; otherwise isRestarting = true and
\* startWorker() runs to await initializeFfmpeg(), unless the media
\* directories are not writable (process.exit(1)).
RestartTimerFires ==
  /\ Alive /\ pendingTimers > 0
  /\ pendingTimers' = pendingTimers - 1
  /\ restartTimeoutId' = FALSE
  /\ IF isShuttingDown
     THEN /\ isRestartScheduled' = FALSE
          /\ UNCHANGED <<isRestarting, restartsRunning, exitCode>>
     ELSE /\ isRestarting' = TRUE
          /\ UNCHANGED isRestartScheduled
          /\ \E dirsWritable \in BOOLEAN :
               IF dirsWritable
               THEN restartsRunning' = restartsRunning + 1 /\ UNCHANGED exitCode
               ELSE exitCode' = 1 /\ UNCHANGED restartsRunning
  /\ UNCHANGED <<brokerVars, isShuttingDown, worker, restartAttempts,
                 restartDelay, instVars, srPc, srWorker, startupPc,
                 startupAttempt, sdPc, sdWorker, hookVars, envVars, logVars, restVars>>

\* await startWorker() returned in the restart callback:
\* isRestartScheduled = false; isRestarting = false.
RestartStartWorkerDone ==
  /\ Alive /\ restartsRunning > 0
  /\ WorkerConstructed
  /\ restartsRunning' = restartsRunning - 1
  /\ isRestartScheduled' = FALSE
  /\ isRestarting' = FALSE
  /\ UNCHANGED <<brokerUp, jobState, attemptsMade, attemptsStarted, jobProgress,
                 returnvalue, failedReason, stalledCount, isShuttingDown,
                 restartTimeoutId, restartDelay, exitCode, pendingTimers, srPc,
                 srWorker, startupPc, startupAttempt, sdPc, sdWorker, hookVars,
                 envVars, logVars, restVars>>

\* The catch of the restart callback without its call of
\* scheduleWorkerRestart(): both flags are cleared and nothing is scheduled.
RestartStartWorkerThrowsNoReschedule ==
  /\ Alive /\ restartsRunning > 0
  /\ restartAttempts < MaxRestartAttempts
  /\ restartsRunning' = restartsRunning - 1
  /\ isRestarting' = FALSE
  /\ isRestartScheduled' = FALSE
  /\ UNCHANGED <<brokerVars, isShuttingDown, worker, wJob, wPhase, connLost,
                 startupPc, startupAttempt, sdPc, sdWorker, hookVars, envVars,
                 restVars, restartAttempts, restartDelay, wState, srPc,
                 srWorker, restartTimeoutId, pendingTimers, exitCode,
                 duplicateSkipped>>

\* await startWorker() threw in the restart callback: both flags are cleared
\* and scheduleWorkerRestart() is called again.
RestartStartWorkerThrows ==
  /\ Alive /\ restartsRunning > 0
  /\ restartAttempts < MaxRestartAttempts
  /\ restartsRunning' = restartsRunning - 1
  /\ isRestarting' = FALSE
  /\ ScheduleWorkerRestart(FALSE, FALSE)
  /\ UNCHANGED <<brokerVars, isShuttingDown, worker, wJob, wPhase, connLost,
                 startupPc, startupAttempt, sdPc, sdWorker, hookVars, envVars,
                 restVars>>

\* startWithRetry(): await startWorker() returned, the loop ends.
StartupStartWorkerDone ==
  /\ Alive /\ startupPc = "starting"
  /\ WorkerConstructed
  /\ startupPc' = "done"
  /\ startupAttempt' = 0
  /\ UNCHANGED <<brokerUp, jobState, attemptsMade, attemptsStarted, jobProgress,
                 returnvalue, failedReason, stalledCount, isShuttingDown,
                 isRestartScheduled, isRestarting, restartTimeoutId,
                 restartDelay, exitCode, pendingTimers, restartsRunning, srPc,
                 srWorker, sdPc, sdWorker, hookVars, envVars, logVars, restVars>>

\* startWithRetry(): startWorker() threw; sleep and try again, or after the
\* last attempt call scheduleWorkerRestart().
StartupStartWorkerThrows ==
  /\ Alive /\ startupPc = "starting"
  /\ IF startupAttempt < maxInitialRetries
     THEN /\ startupPc' = "sleeping"
          /\ UNCHANGED <<isRestartScheduled, restartAttempts, restartDelay,
                         wState, srPc, srWorker, restartTimeoutId,
                         pendingTimers, exitCode, startupAttempt,
                         duplicateSkipped>>
     ELSE /\ startupPc' = "done"
          /\ startupAttempt' = 0
          /\ ScheduleWorkerRestart(isRestartScheduled, isRestarting)
  /\ UNCHANGED <<brokerVars, isShuttingDown, isRestarting, worker, wJob, wPhase,
                 connLost, restartsRunning, sdPc, sdWorker, hookVars, envVars,
                 restVars>>

\* startWithRetry(): the sleep of initialRetryDelay * attempt is over; the
\* next attempt enters startWorker() (exit 1 if the directories fail).
StartupRetry ==
  /\ Alive /\ startupPc = "sleeping"
  /\ startupAttempt' = startupAttempt + 1
  /\ \E dirsWritable \in BOOLEAN :
       IF dirsWritable
       THEN startupPc' = "starting" /\ UNCHANGED exitCode
       ELSE exitCode' = 1 /\ UNCHANGED startupPc
  /\ UNCHANGED <<brokerVars, isShuttingDown, isRestartScheduled, isRestarting,
                 worker, restartAttempts, restartTimeoutId, restartDelay,
                 instVars, pendingTimers, restartsRunning, srPc, srWorker,
                 sdPc, sdWorker, hookVars, envVars, logVars, restVars>>

\* ------------------------------------------------------ gracefulShutdown
\* SIGTERM / SIGINT: a second signal only logs. The first sets the flag,
\* clears the restart flags and the timer, and then either awaits
\* worker.pause(true) or, with no worker, exits 0.
Signal ==
  /\ Alive
  /\ IF isShuttingDown
     THEN UNCHANGED <<isShuttingDown, isRestartScheduled, isRestarting,
                      restartTimeoutId, pendingTimers, sdPc, exitCode>>
     ELSE /\ isShuttingDown' = TRUE
          /\ isRestartScheduled' = FALSE
          /\ isRestarting' = FALSE
          /\ restartTimeoutId' = FALSE
          /\ pendingTimers' = IF restartTimeoutId THEN pendingTimers - 1
                              ELSE pendingTimers
          /\ IF worker # NoWorker
             THEN sdPc' = "pause" /\ UNCHANGED exitCode
             ELSE sdPc' = "done" /\ exitCode' = 0
  /\ sdWorker' = IF isShuttingDown THEN sdWorker ELSE worker
  /\ UNCHANGED <<brokerVars, worker, restartAttempts, restartDelay, instVars,
                 restartsRunning, srPc, srWorker, startupPc, startupAttempt,
                 hookVars, envVars, logVars, restVars>>

\* await worker.pause(true) resolved: the instance fetches no further job
\* (doNotWaitActive: the running attempt is not awaited). Then the 1 s poll
\* and the 30 s timer are armed.
ShutdownPaused ==
  /\ Alive /\ sdPc = "pause"
  /\ sdPc' = "wait"
  /\ wState' = [wState EXCEPT ![sdWorker] = IF @ = "running" THEN "paused" ELSE @]
  /\ UNCHANGED <<brokerVars, flagVars, wJob, wPhase, connLost, pendingTimers,
                 restartsRunning, srPc, srWorker, startupPc, startupAttempt,
                 sdWorker, hookVars, envVars, logVars, restVars>>

\* The wait ends: the poll saw worker == null or isRunning() false, or the
\* 30 s timer fired. Then await worker.close(): with worker == null the call
\* throws a TypeError, the catch logs it and the process exits 0.
ShutdownWaitOver ==
  /\ Alive /\ sdPc = "wait"
  /\ IF worker = NoWorker
     THEN /\ sdPc' = "done" /\ exitCode' = 0
          /\ UNCHANGED <<wState, sdWorker>>
     ELSE /\ sdPc' = "closing" /\ sdWorker' = worker
          /\ wState' = CloseCalled(wState, worker)
          /\ UNCHANGED exitCode
  /\ UNCHANGED <<brokerVars, isShuttingDown, isRestartScheduled, isRestarting,
                 worker, restartAttempts, restartTimeoutId, restartDelay, wJob,
                 wPhase, connLost, pendingTimers, restartsRunning, srPc,
                 srWorker, startupPc, startupAttempt, hookVars, envVars, logVars, restVars>>

\* await worker.close() settled (resolved, or rejected into the catch):
\* process.exit(0).
ShutdownExit ==
  /\ Alive /\ sdPc = "closing" /\ wState[sdWorker] \in {"closed", "failed"}
  /\ sdPc' = "done" /\ exitCode' = 0
  /\ UNCHANGED <<brokerVars, isShuttingDown, isRestartScheduled, isRestarting,
                 worker, restartAttempts, restartTimeoutId, restartDelay,
                 instVars, pendingTimers, restartsRunning, srPc, srWorker,
                 startupPc, startupAttempt, sdWorker, hookVars, envVars, logVars, restVars>>

\* ------------------------------------------------ process-level handlers
\* process.on('uncaughtException'): restart, or exit 1 under shutdown.
UncaughtException ==
  /\ Alive /\ faults < MaxFaults
  /\ faults' = faults + 1
  /\ IF ~isShuttingDown
     THEN ScheduleWorkerRestart(isRestartScheduled, isRestarting)
     ELSE /\ exitCode' = 1
          /\ UNCHANGED <<isRestartScheduled, restartAttempts, restartDelay,
                         wState, srPc, srWorker, restartTimeoutId, pendingTimers,
                         duplicateSkipped>>
  /\ SrFrame

\* process.on('unhandledRejection'): restart unless shutting down.
UnhandledRejection ==
  /\ Alive /\ faults < MaxFaults
  /\ faults' = faults + 1
  /\ IF ~isShuttingDown
     THEN ScheduleWorkerRestart(isRestartScheduled, isRestarting)
     ELSE UNCHANGED <<isRestartScheduled, restartAttempts, restartDelay, wState,
                      srPc, srWorker, restartTimeoutId, pendingTimers, exitCode,
                      duplicateSkipped>>
  /\ SrFrame

\* ------------------------------------------------- Worker event handlers
ErrorKinds == {"ECONNREFUSED", "ETIMEDOUT", "ECONNRESET", "other"}

\* An instance whose handlers can still be called.
Emits(i) == wState[i] \in {"running", "paused", "closing"} /\ connLost[i]

\* worker.on('error'): the condition as JavaScript parses it,
\* (!isShuttingDown && REFUSED) || TIMEDOUT || RESET.
WorkerError(i, kind) ==
  /\ Alive /\ Emits(i)
  /\ IF \/ (~isShuttingDown /\ kind = "ECONNREFUSED")
        \/ kind = "ETIMEDOUT"
        \/ kind = "ECONNRESET"
     THEN ScheduleWorkerRestart(isRestartScheduled, isRestarting)
     ELSE UNCHANGED <<isRestartScheduled, restartAttempts, restartDelay, wState,
                      srPc, srWorker, restartTimeoutId, pendingTimers, exitCode,
                      duplicateSkipped>>
  /\ UNCHANGED faults
  /\ SrFrame

\* worker.on('ioredis:close').
WorkerRedisClose(i) ==
  /\ Alive /\ Emits(i)
  /\ IF ~isShuttingDown
     THEN ScheduleWorkerRestart(isRestartScheduled, isRestarting)
     ELSE UNCHANGED <<isRestartScheduled, restartAttempts, restartDelay, wState,
                      srPc, srWorker, restartTimeoutId, pendingTimers, exitCode,
                      duplicateSkipped>>
  /\ UNCHANGED faults
  /\ SrFrame

\* ------------------------------------------- the Worker and its handler
\* An instance can reach the broker.
Connected(i) == brokerUp /\ ~connLost[i] /\ wState[i] \in {"running", "paused", "closing"}

Running(i) == {j \in JobIds : wJob[i] = j}

\* The Worker fetches the next waiting job (concurrency cfg.parallel_limit):
\* waiting -> active under the instance's lock.
Claim(i, j) ==
  /\ Alive /\ wState[i] = "running" /\ Connected(i)
  /\ Cardinality(Running(i)) < ParallelLimit
  /\ jobState[j] = "waiting"
  /\ jobState' = [jobState EXCEPT ![j] = "active"]
  /\ lockOwner' = [lockOwner EXCEPT ![j] = i]
  /\ attemptsStarted' = [attemptsStarted EXCEPT ![j] = Min(@ + 1, JobAttempts + 1)]
  /\ wJob' = [wJob EXCEPT ![i] = j]
  /\ wPhase' = [wPhase EXCEPT ![i] = "fetched"]
  /\ UNCHANGED <<brokerUp, attemptsMade, jobProgress, returnvalue, failedReason,
                 stalledCount, flagVars, wState, connLost, coVars, hookVars,
                 envVars, logVars, restVars>>

\* The instance still owns the job it runs and can write its outcome.
HoldsLock(i, j) == Connected(i) /\ jobState[j] = "active" /\ lockOwner[j] = i

\* The processor threw: BullMQ's retry policy. With attempts left the job is
\* delayed (exponential backoff), after the last it is failed with the
\* error text.
MoveToFailed(j, reason) ==
  /\ attemptsMade' = [attemptsMade EXCEPT ![j] = Min(@ + 1, JobAttempts)]
  /\ lockOwner' = [lockOwner EXCEPT ![j] = NoWorker]
  /\ IF attemptsMade[j] + 1 < JobAttempts
     THEN /\ jobState' = [jobState EXCEPT ![j] = "delayed"]
          /\ UNCHANGED failedReason
     ELSE /\ jobState' = [jobState EXCEPT ![j] = "failed"]
          /\ failedReason' = [failedReason EXCEPT ![j] = reason]

\* The processor returned a value: the job is completed with it.
MoveToCompleted(j, result) ==
  /\ jobState' = [jobState EXCEPT ![j] = "completed"]
  /\ returnvalue' = [returnvalue EXCEPT ![j] = result]
  /\ lockOwner' = [lockOwner EXCEPT ![j] = NoWorker]

\* The processor without its shutdown check: every fetched job goes on to
\* processJob.
HandlerEnterUnguarded(i) ==
  /\ Alive /\ wPhase[i] = "fetched"
  /\ wPhase' = [wPhase EXCEPT ![i] = "processing"]
  /\ UNCHANGED <<wJob, attemptsMade, lockOwner, jobState, failedReason>>
  /\ UNCHANGED <<brokerUp, attemptsStarted, jobProgress, returnvalue,
                 stalledCount, flagVars, wState, connLost, coVars, hookVars,
                 envVars, logVars, restVars>>

\* The processor of new Worker(...): under shutdown it throws before
\* processJob is called, otherwise it returns processJob(job).
HandlerEnter(i) ==
  /\ Alive /\ wPhase[i] = "fetched"
  /\ IF isShuttingDown
     THEN /\ wPhase' = [wPhase EXCEPT ![i] = "idle"]
          /\ wJob' = [wJob EXCEPT ![i] = NoJob]
          /\ IF HoldsLock(i, wJob[i])
             THEN MoveToFailed(wJob[i], "Worker is shutting down")
             ELSE UNCHANGED <<attemptsMade, lockOwner, jobState, failedReason>>
     ELSE /\ wPhase' = [wPhase EXCEPT ![i] = "processing"]
          /\ UNCHANGED <<wJob, attemptsMade, lockOwner, jobState, failedReason>>
  /\ UNCHANGED <<brokerUp, attemptsStarted, jobProgress, returnvalue,
                 stalledCount, flagVars, wState, connLost, coVars, hookVars,
                 envVars, logVars, restVars>>

\* processJob(job) ends. It never throws: a pipeline result with
\* success = false is returned after sendFailureWebhook, a fault is caught,
\* answered with sendFailureWebhook and returned as { success: false }, and a
\* success is returned after sendCompletionWebhook. The Worker then
\* completes the job with the returned value if it still owns it.
ProcessJobReturns(i, result) ==
  /\ Alive /\ wPhase[i] = "processing"
  /\ LET j == wJob[i] IN
       /\ IF result = "failure"
          THEN /\ failureWebhooks' = [failureWebhooks EXCEPT ![j] = Min(@ + 1, JobAttempts + 1)]
               /\ UNCHANGED completionWebhooks
          ELSE /\ completionWebhooks' = [completionWebhooks EXCEPT ![j] = Min(@ + 1, JobAttempts + 1)]
               /\ UNCHANGED failureWebhooks
       /\ IF HoldsLock(i, j)
          THEN MoveToCompleted(j, result)
          ELSE UNCHANGED <<jobState, returnvalue, lockOwner>>
  /\ wPhase' = [wPhase EXCEPT ![i] = "idle"]
  /\ wJob' = [wJob EXCEPT ![i] = NoJob]
  /\ UNCHANGED <<brokerUp, attemptsMade, attemptsStarted, jobProgress,
                 failedReason, stalledCount, flagVars, wState, connLost,
                 coVars, envVars, logVars, restVars>>

\* worker.close() resolves once no attempt runs in the instance.
CloseResolves(i) ==
  /\ Alive /\ wState[i] = "closing" /\ wJob[i] = NoJob
  /\ wState' = [wState EXCEPT ![i] = "closed"]
  /\ UNCHANGED <<brokerVars, flagVars, wJob, wPhase, connLost, coVars,
                 hookVars, envVars, logVars, restVars>>

\* worker.close() rejects on a broken connection: the instance is torn down
\* (no more lock renewal), the attempt it runs goes on in the process.
CloseRejects(i) ==
  /\ Alive /\ wState[i] = "closing" /\ connLost[i]
  /\ wState' = [wState EXCEPT ![i] = "failed"]
  /\ UNCHANGED <<brokerVars, flagVars, wJob, wPhase, connLost, coVars,
                 hookVars, envVars, logVars, restVars>>

\* ------------------------------------------------------------ the broker
\* Redis goes away: every connection of the process breaks.
BrokerFails(limit) ==
  /\ brokerUp /\ outages < limit
  /\ brokerUp' = FALSE
  /\ outages' = outages + 1
  /\ connLost' = [i \in WorkerIds |-> wState[i] \in {"running", "paused", "closing"}]
  /\ UNCHANGED <<jobState, attemptsMade, attemptsStarted, jobProgress,
                 returnvalue, failedReason, lockOwner, stalledCount, flagVars,
                 wState, wJob, wPhase, coVars, hookVars, faults, logVars,
                 restVars>>

BrokerDown == BrokerFails(MaxOutages)

BrokerRecovers ==
  /\ ~brokerUp
  /\ brokerUp' = TRUE
  /\ UNCHANGED <<jobState, attemptsMade, attemptsStarted, jobProgress,
                 returnvalue, failedReason, lockOwner, stalledCount, flagVars,
                 instVars, coVars, hookVars, envVars, logVars, restVars>>

\* ioredis reconnects an instance that was not torn down.
Reconnect(i) ==
  /\ Alive /\ brokerUp /\ connLost[i]
  /\ wState[i] \in {"running", "paused", "closing"}
  /\ connLost' = [connLost EXCEPT ![i] = FALSE]
  /\ UNCHANGED <<brokerVars, flagVars, wState, wJob, wPhase, coVars, hookVars,
                 envVars, logVars, restVars>>

\* The lock of an active job runs out when its owner does not renew it: the
\* process or the instance is gone, the owner's connection is down, the owner
\* was torn down, or the owner no longer runs the job (its attempt ended
\* while the outcome could not be written).
LockExpires(j) ==
  /\ jobState[j] = "active" /\ lockOwner[j] # NoWorker
  /\ IF lockOwner[j] = Departed \/ ~Alive
     THEN TRUE
     ELSE \/ connLost[lockOwner[j]]
          \/ wState[lockOwner[j]] \in {"closed", "failed"}
          \/ wJob[lockOwner[j]] # j
  /\ lockOwner' = [lockOwner EXCEPT ![j] = NoWorker]
  /\ UNCHANGED <<brokerUp, jobState, attemptsMade, attemptsStarted, jobProgress,
                 returnvalue, failedReason, stalledCount, flagVars, instVars,
                 coVars, hookVars, envVars, logVars, restVars>>

\* The stalled-jobs check of a running Worker: an active job without a lock
\* goes back to waiting, or to failed once it stalled more than
\* maxStalledCount times.
StalledCheck(i, j) ==
  /\ Alive /\ wState[i] = "running" /\ Connected(i)
  /\ jobState[j] = "active" /\ lockOwner[j] = NoWorker
  /\ IF stalledCount[j] < MaxStalledCount
     THEN /\ jobState' = [jobState EXCEPT ![j] = "waiting"]
          /\ stalledCount' = [stalledCount EXCEPT ![j] = @ + 1]
          /\ UNCHANGED failedReason
     ELSE /\ jobState' = [jobState EXCEPT ![j] = "failed"]
          /\ failedReason' = [failedReason EXCEPT ![j] = "job stalled more than allowable limit"]
          /\ UNCHANGED stalledCount
  /\ UNCHANGED <<brokerUp, attemptsMade, attemptsStarted, jobProgress,
                 returnvalue, lockOwner, flagVars, instVars, coVars, hookVars,
                 envVars, logVars, restVars>>

\* The backoff delay of a delayed job is over.
PromoteDelayed(j) ==
  /\ brokerUp /\ jobState[j] = "delayed"
  /\ jobState' = [jobState EXCEPT ![j] = "waiting"]
  /\ UNCHANGED <<brokerUp, attemptsMade, attemptsStarted, jobProgress,
                 returnvalue, failedReason, lockOwner, stalledCount, flagVars,
                 instVars, coVars, hookVars, envVars, logVars, restVars>>

\* ------------------------------------------ lib/queue: admin operations
\* A retry that also takes a completed job back to waiting.
RetryFinishedJob(j) ==
  /\ brokerUp /\ jobState[j] \in {"failed", "completed"}
  /\ jobState' = [jobState EXCEPT ![j] = "waiting"]
  /\ failedReason' = [failedReason EXCEPT ![j] = "none"]
  /\ UNCHANGED <<brokerUp, attemptsMade, attemptsStarted, jobProgress,
                 returnvalue, lockOwner, stalledCount, flagVars, instVars,
                 coVars, hookVars, envVars, logVars, restVars>>

\* job.retry(): the job leaves the failed set for the wait list.
RequeueJob(j) ==
  /\ jobState' = [jobState EXCEPT ![j] = "waiting"]
  /\ failedReason' = [failedReason EXCEPT ![j] = "none"]
  /\ UNCHANGED <<brokerUp, attemptsMade, attemptsStarted, jobProgress,
                 returnvalue, lockOwner, stalledCount>>

\* retryFailedJob(jobId): job.retry() moves a failed job back to waiting and
\* throws for a job in any other state; the catch returns false.
RetryFailedJob(j) ==
  /\ brokerUp /\ jobState[j] = "failed"
  /\ RequeueJob(j)
  /\ UNCHANGED <<flagVars, instVars, coVars, hookVars, envVars, logVars, restVars>>

\* removeJob(jobId): job.remove() deletes the job unless it is locked by a
\* worker, in which case it throws and the catch returns false.
\* job.remove(): the job's record leaves the broker.
DeleteJob(j) ==
  /\ jobState' = [jobState EXCEPT ![j] = "absent"]
  /\ attemptsMade' = [attemptsMade EXCEPT ![j] = 0]
  /\ jobProgress' = [jobProgress EXCEPT ![j] = 0]
  /\ returnvalue' = [returnvalue EXCEPT ![j] = "none"]
  /\ failedReason' = [failedReason EXCEPT ![j] = "none"]
  /\ stalledCount' = [stalledCount EXCEPT ![j] = 0]
  /\ UNCHANGED <<brokerUp, attemptsStarted, lockOwner>>

RemoveJob(j) ==
  /\ brokerUp /\ jobState[j] # "absent" /\ lockOwner[j] = NoWorker
  /\ DeleteJob(j)
  /\ UNCHANGED <<flagVars, instVars, coVars, hookVars, envVars, logVars, restVars>>

\* ------------------------------------------------------------ SpecWorker
NextWorker ==
  \/ RestartAfterClose \/ RestartCloseFailed
  \/ RestartTimerFires \/ RestartStartWorkerDone \/ RestartStartWorkerThrows
  \/ StartupStartWorkerDone \/ StartupStartWorkerThrows \/ StartupRetry
  \/ Signal \/ ShutdownPaused \/ ShutdownWaitOver \/ ShutdownExit
  \/ UncaughtException \/ UnhandledRejection
  \/ \E i \in WorkerIds, kind \in ErrorKinds : WorkerError(i, kind)
  \/ \E i \in WorkerIds : WorkerRedisClose(i)
  \/ \E i \in WorkerIds, j \in JobIds : Claim(i, j)
  \/ \E i \in WorkerIds : HandlerEnter(i)
  \/ \E i \in WorkerIds, result \in {"success", "failure"} : ProcessJobReturns(i, result)
  \/ \E i \in WorkerIds : CloseResolves(i)
  \/ \E i \in WorkerIds : CloseRejects(i)
  \/ BrokerDown \/ BrokerRecovers
  \/ \E i \in WorkerIds : Reconnect(i)
  \/ \E j \in JobIds : LockExpires(j)
  \/ \E i \in WorkerIds, j \in JobIds : StalledCheck(i, j)
  \/ \E j \in JobIds : PromoteDelayed(j)
  \/ \E j \in JobIds : RetryFailedJob(j)
  \/ \E j \in JobIds : RemoveJob(j)

SpecWorker == InitWorker /\ [][NextWorker]_vars


\* -------------------------------------------------- lib/queue: enqueueJob
NonTerminal == {"waiting", "active", "delayed"}

\* Promise.race: what enqueueJob answers is what settles first, and the
\* result of enqueueOperation() is dropped once the timeout has settled it.
Settle(answered, result) == IF answered = "none" THEN result ELSE answered

\* enqueueJob() to its first await: timestamp = Date.now(),
\* jobId = `job_${postId}_${timestamp}`, then await queue.getJob(jobId).
EnqueueStart(c, postId) ==
  /\ epc[c] = "idle"
  /\ eJobId' = [eJobId EXCEPT ![c] = <<postId, now>>]
  /\ epc' = [epc EXCEPT ![c] = "getJob"]
  /\ eResult' = [eResult EXCEPT ![c] = "none"]
  /\ UNCHANGED <<brokerVars, processVars, hookVars, now, pipeVars, ioVars>>

\* queue.getJob(jobId) answered: with a job the call goes on to
\* existingJob.getState(), without one to queue.add().
EnqueueGetJob(c) ==
  /\ epc[c] = "getJob"
  /\ epc' = [epc EXCEPT ![c] = IF jobState[eJobId[c]] = "absent"
                                THEN "add" ELSE "getState"]
  /\ UNCHANGED <<brokerVars, processVars, hookVars, now, eJobId, eResult,
                 pipeVars, ioVars>>

\* existingJob.getState() answered: waiting, active and delayed reject the
\* call; any other answer (a finished job, or 'unknown' for a job removed
\* since getJob) lets it go on to queue.add().
EnqueueGetState(c) ==
  /\ epc[c] = "getState"
  /\ IF jobState[eJobId[c]] \in NonTerminal
     THEN /\ epc' = [epc EXCEPT ![c] = "done"]
          /\ eResult' = [eResult EXCEPT ![c] = Settle(@, "rejected")]
     ELSE /\ epc' = [epc EXCEPT ![c] = "add"]
          /\ UNCHANGED eResult
  /\ UNCHANGED <<brokerVars, processVars, hookVars, now, eJobId, pipeVars, ioVars>>

\* queue.add('compress', data, { jobId, .. }) answered: BullMQ creates the
\* job in waiting, and for a jobId whose job exists it adds nothing and
\* resolves all the same.
EnqueueAdd(c) ==
  /\ epc[c] = "add"
  /\ LET id == eJobId[c] IN
       IF jobState[id] = "absent"
       THEN /\ jobState' = [jobState EXCEPT ![id] = "waiting"]
            /\ attemptsMade' = [attemptsMade EXCEPT ![id] = 0]
            /\ jobProgress' = [jobProgress EXCEPT ![id] = 0]
       ELSE UNCHANGED <<jobState, attemptsMade, jobProgress>>
  /\ epc' = [epc EXCEPT ![c] = "count"]
  /\ UNCHANGED <<brokerUp, attemptsStarted, returnvalue, failedReason, lockOwner,
                 stalledCount, processVars, hookVars, now, eJobId, eResult,
                 pipeVars, ioVars>>

\* queue.getWaitingCount() answered: { success: true, jobId, queuePosition }.
EnqueueCount(c) ==
  /\ epc[c] = "count"
  /\ epc' = [epc EXCEPT ![c] = "done"]
  /\ eResult' = [eResult EXCEPT ![c] = Settle(@, "success")]
  /\ UNCHANGED <<brokerVars, processVars, hookVars, now, eJobId, pipeVars, ioVars>>

\* withTimeout: the 15 s timer fires while enqueueOperation() is still at one
\* of its awaits. The race is settled by the rejection, the catch of
\* enqueueJob returns { success: false }, and enqueueOperation() goes on.
EnqueueTimeout(c) ==
  /\ epc[c] \in {"getJob", "getState", "add", "count"}
  /\ eResult[c] = "none"
  /\ eResult' = [eResult EXCEPT ![c] = "timeout"]
  /\ UNCHANGED <<brokerVars, processVars, hookVars, now, epc, eJobId, pipeVars,
                 ioVars>>

\* The route handler has answered; the caller may submit again.
EnqueueReturn(c) ==
  /\ epc[c] = "done"
  /\ epc' = [epc EXCEPT ![c] = "idle"]
  /\ eJobId' = [eJobId EXCEPT ![c] = NoIdentity]
  /\ eResult' = [eResult EXCEPT ![c] = "none"]
  /\ UNCHANGED <<brokerVars, processVars, hookVars, now, pipeVars, ioVars>>

\* A millisecond passes.
Tick ==
  /\ now < MaxClock
  /\ now' = now + 1
  /\ UNCHANGED <<brokerVars, processVars, hookVars, epc, eJobId, eResult,
                 pipeVars, ioVars>>

\* The worker process, seen from the queue: a waiting job is claimed ...
QueueJobClaimed(j) ==
  /\ jobState[j] = "waiting"
  /\ jobState' = [jobState EXCEPT ![j] = "active"]
  /\ lockOwner' = [lockOwner EXCEPT ![j] = CHOOSE i \in WorkerIds : TRUE]
  /\ UNCHANGED <<brokerUp, attemptsMade, attemptsStarted, jobProgress,
                 returnvalue, failedReason, stalledCount, processVars, hookVars,
                 restVars>>

\* ... and its handler returns a result or throws.
QueueJobFinished(j, outcome) ==
  /\ jobState[j] = "active"
  /\ IF outcome = "threw"
     THEN MoveToFailed(j, "Worker is shutting down") /\ UNCHANGED returnvalue
     ELSE MoveToCompleted(j, outcome) /\ UNCHANGED <<attemptsMade, failedReason>>
  /\ UNCHANGED <<brokerUp, attemptsStarted, jobProgress, stalledCount,
                 processVars, hookVars, restVars>>

InitQueue ==
  /\ brokerUp = TRUE
  /\ jobState = [j \in QueueJobIds |-> "absent"]
  /\ attemptsMade = [j \in QueueJobIds |-> 0]
  /\ attemptsStarted = [j \in QueueJobIds |-> 0]
  /\ jobProgress = [j \in QueueJobIds |-> 0]
  /\ returnvalue = [j \in QueueJobIds |-> "none"]
  /\ failedReason = [j \in QueueJobIds |-> "none"]
  /\ lockOwner = [j \in QueueJobIds |-> NoWorker]
  /\ stalledCount = [j \in QueueJobIds |-> 0]
  /\ InitProcess /\ InitQueueIdle /\ InitIoIdle /\ InitPipelineIdle

NextQueue ==
  \/ \E c \in Callers, postId \in PostIds : EnqueueStart(c, postId)
  \/ \E c \in Callers : EnqueueGetJob(c)
  \/ \E c \in Callers : EnqueueGetState(c)
  \/ \E c \in Callers : EnqueueAdd(c)
  \/ \E c \in Callers : EnqueueCount(c)
  \/ \E c \in Callers : EnqueueTimeout(c)
  \/ \E c \in Callers : EnqueueReturn(c)
  \/ Tick
  \/ \E j \in QueueJobIds : QueueJobClaimed(j)
  \/ \E j \in QueueJobIds, outcome \in {"success", "failure", "threw"} :
       QueueJobFinished(j, outcome)
  \/ \E j \in QueueJobIds : PromoteDelayed(j)
  \/ \E j \in QueueJobIds : RetryFailedJob(j)
  \/ \E j \in QueueJobIds : RemoveJob(j)

SpecQueue == InitQueue /\ [][NextQueue]_vars

\* ------------------------------------------- lib/webhook: the throttler
\* this.lastProgress.get(jobId) || 0
LastProg == IF lastProgress = NoEntry THEN 0 ELSE lastProgress

\* now - lastTime > 3000, where lastTime is 0 for a job without an entry
WindowPassed == lastProgress = NoEntry \/ ~lastSentRecent

shouldSend(newProgress) ==
  \/ newProgress - LastProg >= 5
  \/ WindowPassed
  \/ newProgress = 100
  \/ (newProgress = 0 /\ LastProg = 0)

\* webhookThrottler.cleanup(jobId)
ThrottlerCleanup ==
  /\ lastProgress' = NoEntry
  /\ lastSentRecent' = FALSE

\* More than three seconds have passed since the throttler last allowed a
\* webhook of the job.
ThrottleWindowPasses ==
  /\ lastSentRecent
  /\ lastSentRecent' = FALSE
  /\ UNCHANGED <<brokerVars, processVars, hookVars, queueVars, ioVars, mainVars, cvVars,
                 callbacks, lastProgress, delivered>>

\* ------------------------------------------------- one attempt in detail
\* The percent the handler stores and sends in a stage: PROGRESS_STAGES
\* QUEUED, HLS_CONVERSION, the literal 80 and COMPLETE; the completion
\* webhook carries progress 100 and the failure webhook progress 0.
StagePercent(stage) ==
  CASE stage = "queued" -> 0
    [] stage = "hls" -> 75
    [] stage = "thumbnail" -> 80
    [] stage = "complete" -> 100
    [] stage = "completion" -> 100
    [] OTHER -> 0

StageKind(stage) ==
  IF stage \in {"completion", "failure"} THEN "terminal" ELSE "progress"

\* Math.round(x) for x = num / den >= 0
Round(num, den) == (2 * num + den) \div (2 * den)

\* The milestone compressVideoJob folds an ffmpeg percent into.
Milestone(index, percent) ==
  LET progressBase == 25 + index * progressPerQuality
      overallProgress == progressBase + Round(percent * progressPerQuality, 100)
  IN  IF overallProgress >= 75 THEN 75
      ELSE IF overallProgress >= 50 THEN 50
      ELSE IF overallProgress >= 25 THEN 25
      ELSE 0

\* updateJobProgress(jobId, percent): job.updateProgress for a job that exists.
StoreProgress(j, percent) ==
  jobProgress' = IF jobState[j] # "absent"
                 THEN [jobProgress EXCEPT ![j] = percent]
                 ELSE jobProgress

\* onProgress?.(percent, stage): progressCallback runs to its first await
\* inside updateJobProgress and is not awaited by the caller.
Fire(percent) ==
  /\ Len(callbacks) < MaxCallbacks
  /\ callbacks' = Append(callbacks, [percent |-> percent, attempt |-> 0])

Without(seq, k) == SubSeq(seq, 1, k - 1) \o SubSeq(seq, k + 1, Len(seq))

\* The broker commands of the process go through one connection and are
\* answered in the order they were issued.
AwaitingUpdate == {k \in 1 .. Len(callbacks) : callbacks[k].attempt = 0}

PipeFrame == UNCHANGED <<brokerUp, jobState, attemptsMade, attemptsStarted,
                         returnvalue, failedReason, lockOwner, stalledCount,
                         processVars, hookVars, queueVars, ioVars>>

\* processJob: await updateJobProgress(..) has returned and
\* sendProgressUpdate(..) is called; the throttler decides at once whether
\* sendWebhook starts.
HandlerUpdateDone ==
  /\ pStage \in {"queued", "hls", "thumbnail", "complete"} /\ pStep = "update"
  /\ AwaitingUpdate = {}
  /\ StoreProgress(pJob, StagePercent(pStage))
  /\ IF shouldSend(StagePercent(pStage))
     THEN /\ lastProgress' = StagePercent(pStage)
          /\ lastSentRecent' = TRUE
          /\ pStep' = "http"
          /\ pAttempt' = 1
     ELSE /\ pStep' = "run"
          /\ UNCHANGED <<throttlerVars, pAttempt>>
  /\ UNCHANGED <<pJob, pStage, pResult, wantThumbnail, cvVars, callbacks,
                 delivered>>
  /\ PipeFrame

\* sendWebhook awaited by the handler: one sendWebhookOnce. A success
\* delivers the payload; a failure is retried after WEBHOOK_RETRY_DELAY *
\* attempt until WEBHOOK_MAX_RETRIES attempts were made. After a terminal
\* webhook processJob returns.
HandlerWebhookAttempt(ok) ==
  /\ pStep = "http"
  /\ delivered' = IF ok
                  THEN Append(delivered, <<StageKind(pStage), StagePercent(pStage)>>)
                  ELSE delivered
  /\ IF ~ok /\ pAttempt < WEBHOOK_MAX_RETRIES
     THEN /\ pAttempt' = pAttempt + 1
          /\ UNCHANGED <<pStage, pStep, pResult>>
     ELSE /\ pAttempt' = 0
          /\ IF StageKind(pStage) = "terminal"
             THEN /\ pResult' = IF pStage = "completion" THEN "success" ELSE "failure"
                  /\ pStage' = "returned"
                  /\ pStep' = "run"
             ELSE /\ pStep' = "run"
                  /\ UNCHANGED <<pStage, pResult>>
  /\ UNCHANGED <<pJob, wantThumbnail, cvVars, callbacks, throttlerVars,
                 jobProgress>>
  /\ PipeFrame

\* sendFailureWebhook(..) is called: the throttler entry is dropped and
\* sendWebhook starts.
SendFailure ==
  /\ pStage' = "failure"
  /\ pStep' = "http"
  /\ pAttempt' = 1
  /\ ThrottlerCleanup

\* compressVideoJob: the source is on disk, is downloaded, or is missing.
CvSource(where) ==
  /\ pStage = "queued" /\ pStep = "run" /\ cvPc = "source"
  /\ CASE where = "local" ->
            /\ Fire(25) /\ cvPc' = "validate"
            /\ UNCHANGED <<pStage, pStep, pAttempt, throttlerVars>>
       [] where = "remote" ->
            /\ Fire(0) /\ cvPc' = "download"
            /\ UNCHANGED <<pStage, pStep, pAttempt, throttlerVars>>
       [] OTHER ->
            /\ SendFailure /\ cvPc' = "done"
            /\ UNCHANGED callbacks
  /\ UNCHANGED <<pJob, pResult, wantThumbnail, qualityIndex, anySucceeded,
                 progressEvents, ffmpegPercent, delivered, jobProgress>>
  /\ PipeFrame

\* compressVideoJob: await downloadVideo(..) returned.
CvDownloaded(ok) ==
  /\ pStage = "queued" /\ pStep = "run" /\ cvPc = "download"
  /\ IF ok
     THEN /\ Fire(25) /\ cvPc' = "validate"
          /\ UNCHANGED <<pStage, pStep, pAttempt, throttlerVars>>
     ELSE /\ SendFailure /\ cvPc' = "done"
          /\ UNCHANGED callbacks
  /\ UNCHANGED <<pJob, pResult, wantThumbnail, qualityIndex, anySucceeded,
                 progressEvents, ffmpegPercent, delivered, jobProgress>>
  /\ PipeFrame

\* compressVideoJob: await validateInputVideo(..) returned.
CvValidated(valid) ==
  /\ pStage = "queued" /\ pStep = "run" /\ cvPc = "validate"
  /\ IF valid
     THEN /\ Fire(25) /\ cvPc' = "transcode"
          /\ UNCHANGED <<pStage, pStep, pAttempt, throttlerVars>>
     ELSE /\ SendFailure /\ cvPc' = "done"
          /\ UNCHANGED callbacks
  /\ UNCHANGED <<pJob, pResult, wantThumbnail, qualityIndex, anySucceeded,
                 progressEvents, ffmpegPercent, delivered, jobProgress>>
  /\ PipeFrame

\* compressVideo: ffmpeg reports progress, its time mark never going back
\* within one transcode; the percent is rounded, folded into a milestone and
\* handed to onProgress.
FfmpegEvent(percent, limit) ==
  /\ pStage = "queued" /\ pStep = "run" /\ cvPc = "transcode"
  /\ progressEvents < limit
  /\ percent >= ffmpegPercent
  /\ ffmpegPercent' = percent
  /\ progressEvents' = progressEvents + 1
  /\ Fire(Milestone(qualityIndex, percent))
  /\ UNCHANGED <<mainVars, cvPc, qualityIndex, anySucceeded, throttlerVars,
                 delivered, jobProgress>>
  /\ PipeFrame

FfmpegProgress(percent) == FfmpegEvent(percent, MaxProgressEvents)

\* compressVideo resolved for one quality. After the last quality the job
\* fails if no quality succeeded; else onProgress(75, 'finalizing') and
\* compressVideoJob returns, and processJob stores 75.
CvTranscodeEnds(ok) ==
  /\ pStage = "queued" /\ pStep = "run" /\ cvPc = "transcode"
  /\ anySucceeded' = (anySucceeded \/ ok)
  /\ ffmpegPercent' = 0
  /\ IF qualityIndex < NumQualities - 1
     THEN /\ qualityIndex' = qualityIndex + 1
          /\ UNCHANGED <<pStage, pStep, pAttempt, cvPc, callbacks, throttlerVars>>
     ELSE /\ cvPc' = "done"
          /\ UNCHANGED qualityIndex
          /\ IF anySucceeded \/ ok
             THEN /\ Fire(75)
                  /\ pStage' = "hls" /\ pStep' = "update"
                  /\ UNCHANGED <<pAttempt, throttlerVars>>
             ELSE /\ SendFailure
                  /\ UNCHANGED callbacks
  /\ UNCHANGED <<pJob, pResult, wantThumbnail, progressEvents, delivered,
                 jobProgress>>
  /\ PipeFrame

\* processJob: await convertToHLSStreaming(..) or await compressThumbnail(..)
\* settled. Both catch their own errors and return { success: false }, which
\* is logged, and the handler goes on.
HandlerStepDone ==
  /\ pStage \in {"hls", "thumbnail"} /\ pStep = "run"
  /\ pStage' = IF pStage = "hls" /\ wantThumbnail THEN "thumbnail" ELSE "complete"
  /\ pStep' = "update"
  /\ UNCHANGED <<pJob, pAttempt, pResult, wantThumbnail, cvVars, callbacks,
                 throttlerVars, delivered, jobProgress>>
  /\ PipeFrame

\* processJob returning compressionResult after the progress update of 100
\* without sendCompletionWebhook(..).
ReturnWithoutCompletion ==
  /\ pStage = "complete" /\ pStep = "run"
  /\ pStage' = "returned"
  /\ pResult' = "success"
  /\ UNCHANGED <<pJob, pStep, pAttempt, wantThumbnail, cvVars, callbacks,
                 throttlerVars, delivered, jobProgress>>
  /\ PipeFrame

\* processJob: sendCompletionWebhook(..) is called after the progress update
\* of 100: the throttler entry is dropped and sendWebhook starts.
SendCompletion ==
  /\ pStage = "complete" /\ pStep = "run"
  /\ pStage' = "completion"
  /\ pStep' = "http"
  /\ pAttempt' = 1
  /\ ThrottlerCleanup
  /\ UNCHANGED <<pJob, pResult, wantThumbnail, cvVars, callbacks, delivered,
                 jobProgress>>
  /\ PipeFrame

\* processJob has returned its result: the Worker completes the job with it.
ProcessJobEnds ==
  /\ pStage = "returned"
  /\ pStage' = "done"
  /\ IF HoldsLock(worker, pJob)
     THEN MoveToCompleted(pJob, pResult)
     ELSE UNCHANGED <<jobState, returnvalue, lockOwner>>
  /\ wPhase' = [wPhase EXCEPT ![worker] = "idle"]
  /\ wJob' = [wJob EXCEPT ![worker] = NoJob]
  /\ UNCHANGED <<brokerUp, attemptsMade, attemptsStarted, jobProgress,
                 failedReason, stalledCount, flagVars, wState, connLost, coVars,
                 envVars, logVars, hookVars, queueVars, ioVars, pJob, pStep, pAttempt,
                 pResult, wantThumbnail, cvVars, callbacks, throttlerVars,
                 delivered>>

\* A progress callback: its await updateJobProgress(..) has returned, and it
\* calls sendProgressUpdate(..).
CallbackUpdateDone ==
  /\ AwaitingUpdate # {}
  /\ LET k == CHOOSE x \in AwaitingUpdate : \A y \in AwaitingUpdate : x <= y
         percent == callbacks[k].percent
     IN  /\ StoreProgress(pJob, percent)
         /\ IF shouldSend(percent)
            THEN /\ lastProgress' = percent
                 /\ lastSentRecent' = TRUE
                 /\ callbacks' = [callbacks EXCEPT ![k].attempt = 1]
            ELSE /\ callbacks' = Without(callbacks, k)
                 /\ UNCHANGED throttlerVars
  /\ UNCHANGED <<mainVars, cvVars, delivered>>
  /\ PipeFrame

\* A progress callback inside sendWebhook: one sendWebhookOnce.
CallbackWebhookAttempt(k, ok) ==
  /\ k \in 1 .. Len(callbacks) /\ callbacks[k].attempt > 0
  /\ delivered' = IF ok
                  THEN Append(delivered, <<"progress", callbacks[k].percent>>)
                  ELSE delivered
  /\ callbacks' = IF ~ok /\ callbacks[k].attempt < WEBHOOK_MAX_RETRIES
                  THEN [callbacks EXCEPT ![k].attempt = @ + 1]
                  ELSE Without(callbacks, k)
  /\ UNCHANGED <<mainVars, cvVars, throttlerVars, jobProgress>>
  /\ PipeFrame

\* The Worker has claimed the job and its handler has called processJob,
\* which awaits updateJobProgress(jobId, 0).
InitPipeline ==
  LET w == CHOOSE i \in WorkerIds : \A k \in WorkerIds : i <= k
      job == CHOOSE j \in JobIds : \A k \in JobIds : j <= k
  IN  /\ brokerUp = TRUE
      /\ jobState = [j \in JobIds |-> IF j = job THEN "active" ELSE "waiting"]
      /\ attemptsMade = [j \in JobIds |-> 0]
      /\ attemptsStarted = [j \in JobIds |-> IF j = job THEN 1 ELSE 0]
      /\ jobProgress = [j \in JobIds |-> 0]
      /\ returnvalue = [j \in JobIds |-> "none"]
      /\ failedReason = [j \in JobIds |-> "none"]
      /\ lockOwner = [j \in JobIds |-> IF j = job THEN w ELSE NoWorker]
      /\ stalledCount = [j \in JobIds |-> 0]
      /\ isShuttingDown = FALSE
      /\ isRestartScheduled = FALSE
      /\ isRestarting = FALSE
      /\ worker = w
      /\ restartAttempts = 0
      /\ restartTimeoutId = FALSE
      /\ restartDelay = 0
      /\ exitCode = -1
      /\ wState = [i \in WorkerIds |-> IF i = w THEN "running" ELSE "none"]
      /\ wJob = [i \in WorkerIds |-> IF i = w THEN job ELSE NoJob]
      /\ wPhase = [i \in WorkerIds |-> IF i = w THEN "processing" ELSE "idle"]
      /\ connLost = [i \in WorkerIds |-> FALSE]
      /\ pendingTimers = 0
      /\ restartsRunning = 0
      /\ srPc = "idle"
      /\ srWorker = NoWorker
      /\ startupPc = "done"
      /\ startupAttempt = 0
      /\ sdPc = "idle"
      /\ sdWorker = NoWorker
      /\ failureWebhooks = [j \in JobIds |-> 0]
      /\ completionWebhooks = [j \in JobIds |-> 0]
      /\ outages = 0
      /\ faults = 0
      /\ duplicateSkipped = FALSE
      /\ InitQueueIdle /\ InitIoIdle
      /\ pJob = job
      /\ pStage = "queued"
      /\ pStep = "update"
      /\ pAttempt = 0
      /\ pResult = "none"
      /\ wantThumbnail \in BOOLEAN
      /\ cvPc = "source"
      /\ qualityIndex = 0
      /\ anySucceeded = FALSE
      /\ progressEvents = 0
      /\ ffmpegPercent = 0
      /\ callbacks = <<>>
      /\ lastProgress = NoEntry
      /\ lastSentRecent = FALSE
      /\ delivered = <<>>

NextPipeline ==
  \/ HandlerUpdateDone
  \/ \E ok \in BOOLEAN : HandlerWebhookAttempt(ok)
  \/ \E where \in {"local", "remote", "missing"} : CvSource(where)
  \/ \E ok \in BOOLEAN : CvDownloaded(ok)
  \/ \E valid \in BOOLEAN : CvValidated(valid)
  \/ \E percent \in FfmpegPercents : FfmpegProgress(percent)
  \/ \E ok \in BOOLEAN : CvTranscodeEnds(ok)
  \/ HandlerStepDone
  \/ SendCompletion
  \/ ProcessJobEnds
  \/ CallbackUpdateDone
  \/ \E k \in 1 .. MaxCallbacks, ok \in BOOLEAN : CallbackWebhookAttempt(k, ok)
  \/ ThrottleWindowPasses

SpecPipeline == InitPipeline /\ [][NextPipeline]_vars

\* ------------------------------------------- an attempt of many events
\* One attempt in which ffmpeg reports RawEvents progress events and every
\* progress callback settles before the attempt takes its next step: the
\* broker answers, the endpoint accepts every webhook at the first try, and
\* no two callbacks overlap.
Settled == callbacks = <<>>

NextThrottle ==
  \/ Settled /\ HandlerUpdateDone
  \/ Settled /\ HandlerWebhookAttempt(TRUE)
  \/ Settled /\ \E where \in {"local", "remote", "missing"} : CvSource(where)
  \/ Settled /\ \E ok \in BOOLEAN : CvDownloaded(ok)
  \/ Settled /\ \E valid \in BOOLEAN : CvValidated(valid)
  \/ Settled /\ \E percent \in RawPercents : FfmpegEvent(percent, RawEvents)
  \/ Settled /\ \E ok \in BOOLEAN : CvTranscodeEnds(ok)
  \/ Settled /\ HandlerStepDone
  \/ Settled /\ SendCompletion
  \/ Settled /\ ProcessJobEnds
  \/ CallbackUpdateDone
  \/ CallbackWebhookAttempt(1, TRUE)
  \/ ThrottleWindowPasses

SpecThrottle == InitPipeline /\ [][NextThrottle]_vars

\* ------------------------------------------------------------ recovery
\* The worker process after its start, with the job waiting, and the steps
\* it and the broker take while no signal and no process-level fault arrives:
\* outages, their events, the supervisor's restarts, attempts and stalls.
BrokerDownAgain == BrokerFails(MaxRecoveryOutages)

InitRecovery ==
  LET w == CHOOSE i \in WorkerIds : \A k \in WorkerIds : i <= k
  IN  /\ InitBroker
      /\ isShuttingDown = FALSE
      /\ isRestartScheduled = FALSE
      /\ isRestarting = FALSE
      /\ worker = w
      /\ restartAttempts = 0
      /\ restartTimeoutId = FALSE
      /\ restartDelay = 0
      /\ exitCode = -1
      /\ wState = [i \in WorkerIds |-> IF i = w THEN "running" ELSE "none"]
      /\ wJob = [i \in WorkerIds |-> NoJob]
      /\ wPhase = [i \in WorkerIds |-> "idle"]
      /\ connLost = [i \in WorkerIds |-> FALSE]
      /\ pendingTimers = 0
      /\ restartsRunning = 0
      /\ srPc = "idle"
      /\ srWorker = NoWorker
      /\ startupPc = "done"
      /\ startupAttempt = 0
      /\ sdPc = "idle"
      /\ sdWorker = NoWorker
      /\ failureWebhooks = [j \in JobIds |-> 0]
      /\ completionWebhooks = [j \in JobIds |-> 0]
      /\ outages = 0
      /\ faults = 0
      /\ duplicateSkipped = FALSE
      /\ InitQueueIdle /\ InitIoIdle /\ InitPipelineIdle

NextRecovery ==
  \/ BrokerDownAgain \/ BrokerRecovers
  \/ \E i \in WorkerIds, kind \in ErrorKinds : WorkerError(i, kind)
  \/ \E i \in WorkerIds : WorkerRedisClose(i)
  \/ \E i \in WorkerIds : Reconnect(i)
  \/ RestartAfterClose \/ RestartCloseFailed
  \/ RestartTimerFires \/ RestartStartWorkerDone \/ RestartStartWorkerThrows
  \/ \E i \in WorkerIds, j \in JobIds : Claim(i, j)
  \/ \E i \in WorkerIds : HandlerEnter(i)
  \/ \E i \in WorkerIds, result \in {"success", "failure"} : ProcessJobReturns(i, result)
  \/ \E i \in WorkerIds : CloseResolves(i)
  \/ \E i \in WorkerIds : CloseRejects(i)
  \/ \E j \in JobIds : LockExpires(j)
  \/ \E i \in WorkerIds, j \in JobIds : StalledCheck(i, j)

SpecRecovery == InitRecovery /\ [][NextRecovery]_vars

\* --------------------------------------------------------------- fairness
\* gracefulShutdown's awaits resume once what they wait for has happened,
\* the handler of a fetched job is called, and worker.close() resolves once
\* the instance runs no attempt. Nothing makes an attempt end.
ShutdownFairness ==
  /\ WF_vars(ShutdownPaused)
  /\ WF_vars(ShutdownWaitOver)
  /\ WF_vars(ShutdownExit)
  /\ \A i \in WorkerIds : WF_vars(HandlerEnter(i))
  /\ \A i \in WorkerIds : WF_vars(CloseResolves(i))

LiveSpecShutdown == SpecWorker /\ ShutdownFairness

\* Recovery: the broker comes back, and every step the event loop, the
\* timers, ioredis and the broker take on their own is taken once it stays
\* possible: awaits resume, timers fire, startWorker() gets through, a lost
\* connection is reported or re-established, attempts end, locks expire and
\* the stalled-jobs check runs.
RecoveryFairness ==
  /\ WF_vars(BrokerRecovers)
  /\ WF_vars(RestartAfterClose)
  /\ WF_vars(RestartCloseFailed)
  /\ WF_vars(RestartTimerFires)
  /\ WF_vars(RestartStartWorkerDone)
  /\ \A i \in WorkerIds : WF_vars(WorkerRedisClose(i))
  /\ \A i \in WorkerIds : WF_vars(Reconnect(i))
  /\ \A i \in WorkerIds : WF_vars(\E j \in JobIds : Claim(i, j))
  /\ \A i \in WorkerIds : WF_vars(HandlerEnter(i))
  /\ \A i \in WorkerIds :
       WF_vars(\E result \in {"success", "failure"} : ProcessJobReturns(i, result))
  /\ \A i \in WorkerIds : WF_vars(CloseResolves(i))
  /\ \A j \in JobIds : WF_vars(LockExpires(j))
  /\ \A j \in JobIds : WF_vars(\E i \in WorkerIds : StalledCheck(i, j))

LiveSpecRecovery == SpecRecovery /\ RecoveryFairness

\* -------------------------------------------------------- downloadVideo
\* URL.hostname after parsing: a dotted IPv4 address, a bracketed IPv6
\* address or a name of labels (a trailing dot leaves an empty last label).
Ip4(a, b, c, d) == [kind |-> "ip4", octets |-> <<a, b, c, d>>, labels |-> <<>>]
Ip6(text) == [kind |-> "ip6", octets |-> <<>>, labels |-> <<text>>]
Name(labels) == [kind |-> "name", octets |-> <<>>, labels |-> labels]

DlFirstOctets == {0, 8, 10, 127, 169, 172, 192}
DlSecondOctets == {0, 16, 31, 32, 168, 254}
DlNames == {<<"localhost">>, <<"localhost", "">>, <<"example", "com">>,
            <<"cdn", "example", "com">>, <<"svc", "internal">>,
            <<"printer", "local">>, <<"evil", "net">>}
DlHosts ==
  {Ip4(a, b, 0, 1) : a \in DlFirstOctets, b \in DlSecondOctets}
    \cup {Ip4(0, 0, 0, 0), Ip6("[::1]")}
    \cup {Name(l) : l \in DlNames}

\* A URL string: new URL(url) throws for InvalidUrl (a relative Location
\* header, for one).
InvalidUrl == [scheme |-> "invalid", host |-> Name(<<>>)]
NoLocation == [scheme |-> "none", host |-> Name(<<>>)]
DlUrls ==
  {[scheme |-> sc, host |-> h] : sc \in {"http", "https", "ftp"}, h \in DlHosts}
    \cup {InvalidUrl}

\* The Location headers a server answers a redirect with.
DlLocations ==
  {[scheme |-> sc, host |-> h] :
     sc \in {"http", "ftp"},
     h \in {Ip4(0, 0, 0, 1), Ip4(10, 0, 0, 1), Ip4(169, 254, 0, 1), Ip4(8, 0, 0, 1),
            Ip6("[::1]"), Name(<<"localhost">>), Name(<<"example", "com">>),
            Name(<<"cdn", "example", "com">>), Name(<<"evil", "net">>)}}
    \cup {InvalidUrl}

\* Entries of cfg.allowed_download_domains: '*', '*.suffix' or a host.
AllowStar == [form |-> "star", host |-> Name(<<>>)]
AllowWild(h) == [form |-> "wild", host |-> h]
AllowPlain(h) == [form |-> "plain", host |-> h]
AllowLists(h) ==
  {{}, {AllowStar}, {AllowPlain(Name(<<"example", "com">>))},
   {AllowWild(Name(<<"example", "com">>))}, {AllowPlain(h)}}

\* privatePatterns of validateDownloadUrl, tested against the hostname.
MatchesPrivatePattern(h) ==
  \/ h = Name(<<"localhost">>)
  \/ /\ h.kind = "ip4"
     /\ \/ h.octets[1] = 127
        \/ h.octets[1] = 10
        \/ h.octets[1] = 172 /\ h.octets[2] \in 16 .. 31
        \/ h.octets[1] = 192 /\ h.octets[2] = 168
        \/ h.octets[1] = 169 /\ h.octets[2] = 254
        \/ h.octets = <<0, 0, 0, 0>>
  \/ /\ h.kind = "name" /\ Len(h.labels) >= 2
     /\ h.labels[Len(h.labels)] \in {"internal", "local"}

\* host.endsWith('.' + suffix) on hostnames.
EndsWithDot(h, suffix) ==
  /\ h.kind = "name" /\ suffix.kind = "name"
  /\ Len(suffix.labels) > 0
  /\ Len(h.labels) > Len(suffix.labels)
  /\ SubSeq(h.labels, Len(h.labels) - Len(suffix.labels) + 1, Len(h.labels))
       = suffix.labels

\* One entry of the allowlist admits the host: both forms accept the host
\* itself and its subdomains.
DomainAllowed(h, entry) ==
  /\ entry.form \in {"wild", "plain"}
  /\ (h = entry.host \/ EndsWithDot(h, entry.host))

validateDownloadUrl(url, allowedDomains) ==
  IF url = InvalidUrl THEN "Invalid URL format"
  ELSE IF url.scheme \notin {"http", "https"} THEN "Only HTTP/HTTPS URLs are allowed"
  ELSE IF MatchesPrivatePattern(url.host) THEN "Private/internal hosts not allowed"
  ELSE IF AllowStar \in allowedDomains THEN "valid"
  ELSE IF \E entry \in allowedDomains : DomainAllowed(url.host, entry) THEN "valid"
  ELSE "Domain not in allowed list"

DlFrame == UNCHANGED <<brokerVars, processVars, hookVars, queueVars, pipeVars,
                       outVars, valVars, apiVars>>

\* downloadVideo(videoUrl, wpMediaPath) is called.
DownloadStart(url, allow) ==
  /\ dlPc = "idle"
  /\ dlPc' = "validate"
  /\ dlUrl' = url
  /\ dlAllow' = allow
  /\ UNCHANGED <<dlRedirects, dlConnections, dlFile, dlResult>>
  /\ DlFrame

\* downloadVideo from its entry to httpModule.get: the URL check, the
\* directories, fs.createWriteStream(localPath) and the request.
DownloadRequest(dirsOk) ==
  /\ dlPc = "validate"
  /\ LET verdict == validateDownloadUrl(dlUrl, dlAllow) IN
       IF verdict # "valid"
       THEN /\ dlPc' = "done" /\ dlResult' = verdict
            /\ UNCHANGED <<dlConnections, dlFile>>
       ELSE IF ~dirsOk
       THEN /\ dlPc' = "done" /\ dlResult' = "Failed to create directory"
            /\ UNCHANGED <<dlConnections, dlFile>>
       ELSE /\ dlPc' = "request"
            /\ dlFile' = TRUE
            /\ dlConnections' = dlConnections \cup {dlUrl.host}
            /\ UNCHANGED dlResult
  /\ UNCHANGED <<dlUrl, dlAllow, dlRedirects>>
  /\ DlFrame

\* The response callback: 301/302 with a Location header unlinks the file
\* and calls downloadVideo(redirectUrl); a status other than 200 unlinks the
\* file and fails; 200 pipes the body, and a file under 1024 bytes is
\* unlinked and fails.
DownloadResponse(status, location, bigEnough) ==
  /\ dlPc = "request"
  /\ IF status \in {301, 302} /\ location # NoLocation
     THEN /\ dlRedirects < MaxRedirects
          /\ dlFile' = FALSE
          /\ dlUrl' = location
          /\ dlRedirects' = dlRedirects + 1
          /\ dlPc' = "validate"
          /\ UNCHANGED dlResult
     ELSE IF status # 200
     THEN /\ dlFile' = FALSE
          /\ dlPc' = "done" /\ dlResult' = "HTTP error"
          /\ UNCHANGED <<dlUrl, dlRedirects>>
     ELSE /\ dlPc' = "done"
          /\ dlFile' = bigEnough
          /\ dlResult' = IF bigEnough THEN "success" ELSE "Downloaded file too small"
          /\ UNCHANGED <<dlUrl, dlRedirects>>
  /\ UNCHANGED <<dlAllow, dlConnections>>
  /\ DlFrame

\* request.on('error') or the 300 s timeout: the file is unlinked.
DownloadError ==
  /\ dlPc = "request"
  /\ dlFile' = FALSE
  /\ dlPc' = "done" /\ dlResult' = "Download error"
  /\ UNCHANGED <<dlUrl, dlAllow, dlRedirects, dlConnections>>
  /\ DlFrame

InitDownload ==
  InitBroker /\ InitProcess /\ InitQueueIdle /\ InitIoIdle /\ InitPipelineIdle

NextDownload ==
  \/ \E url \in DlUrls : \E allow \in AllowLists(url.host) : DownloadStart(url, allow)
  \/ \E dirsOk \in BOOLEAN : DownloadRequest(dirsOk)
  \/ \E status \in {200, 301, 302, 404} : \E location \in DlLocations \cup {NoLocation} :
       \E bigEnough \in BOOLEAN : DownloadResponse(status, location, bigEnough)
  \/ DownloadError

SpecDownload == InitDownload /\ [][NextDownload]_vars

\* ------------------------------------- the files and the result of an attempt
\* Layout directories left by earlier runs of the same (postId, year, month).
EarlierLayouts ==
  {{}, LayoutFiles \ {"thumbnail.jpg"},
   {"original.mp4", "compressed_480p.mp4", "compressed_240p.mp4", "hls",
    "thumbnail.jpg"}}

OutFrame == UNCHANGED <<brokerVars, processVars, hookVars, queueVars, pipeVars,
                        dlVars, valVars, apiVars>>

\* compressVideoJob caught an error: { success: false }, and processJob
\* answers it with sendFailureWebhook.
AttemptFails ==
  /\ oPc' = "done"
  /\ oOutcome' = "failure"
  /\ oWebhook' = "failure"

\* processJob is called for a job whose layout directory holds the files of
\* an earlier run; compressVideoJob builds the paths and makes sure of the
\* output directory.
AttemptStart(earlier, wantThumb, dirOk) ==
  /\ oPc = "idle"
  /\ oWantThumb' = wantThumb
  /\ oFiles' = [f \in LayoutFiles |-> IF f \in earlier THEN "old" ELSE "absent"]
  /\ IF dirOk
     THEN /\ oPc' = "cleanup"
          /\ UNCHANGED <<oOutcome, oWebhook>>
     ELSE AttemptFails
  /\ UNCHANGED <<oStuck, oIndex, oResults, oUrls, oHls, oHlsUrls, oThumb, oThumbUrl>>
  /\ OutFrame

\* cleanupOldOutputs: original, the four compressed files, the hls directory
\* and thumbnail.webp/.jpg/.png are deleted if they exist; a deletion that
\* throws is logged and the cleanup goes on.
cleanupOldOutputs(stuck) ==
  /\ oPc = "cleanup"
  /\ stuck \subseteq {f \in LayoutFiles : oFiles[f] = "old"}
  /\ Cardinality(stuck) <= MaxStuck
  /\ oStuck' = stuck
  /\ oFiles' = [f \in LayoutFiles |-> IF f \in stuck THEN "old" ELSE "absent"]
  /\ oPc' = "source"
  /\ UNCHANGED <<oIndex, oResults, oUrls, oHls, oHlsUrls, oThumb, oThumbUrl,
                 oWantThumb, oOutcome, oWebhook>>
  /\ OutFrame

\* compressVideoJob going from the source straight to the compression loop,
\* without validateInputVideo.
SourceReadyUnvalidated(found) ==
  /\ oPc = "source"
  /\ IF found
     THEN oPc' = "transcode" /\ oIndex' = 1 /\ UNCHANGED <<oOutcome, oWebhook>>
     ELSE AttemptFails /\ UNCHANGED oIndex
  /\ UNCHANGED <<oFiles, oStuck, oResults, oUrls, oHls, oHlsUrls, oThumb,
                 oThumbUrl, oWantThumb>>
  /\ OutFrame

\* compressVideoJob: the source is found locally or downloaded, or the
\* attempt fails ('Download failed' / 'Source video not found').
SourceReady(found) ==
  /\ oPc = "source"
  /\ IF found
     THEN oPc' = "validate" /\ UNCHANGED <<oOutcome, oWebhook>>
     ELSE AttemptFails
  /\ UNCHANGED <<oFiles, oStuck, oIndex, oResults, oUrls, oHls, oHlsUrls, oThumb,
                 oThumbUrl, oWantThumb>>
  /\ OutFrame

\* compressVideoJob: validateInputVideo, then the source is copied to
\* original.mp4 and the compression loop starts.
SourceValidated(valid) ==
  /\ oPc = "validate"
  /\ IF valid
     THEN /\ oFiles' = [oFiles EXCEPT !["original.mp4"] = "new"]
          /\ oPc' = "transcode"
          /\ oIndex' = 1
          /\ UNCHANGED <<oOutcome, oWebhook>>
     ELSE /\ AttemptFails
          /\ UNCHANGED <<oFiles, oIndex>>
  /\ UNCHANGED <<oStuck, oResults, oUrls, oHls, oHlsUrls, oThumb, oThumbUrl, oWantThumb>>
  /\ OutFrame

\* compressVideo settles for one quality. ok: ffmpeg ended and the output is
\* at least 1024 bytes. small: it ended with a smaller output, which stays.
\* error: ffmpeg failed and the output, if any, is unlinked (errors ignored).
FileAfterTranscode(f, outcome) ==
  IF outcome \in {"ok", "small"} THEN "new"
  ELSE IF oFiles[f] = "old" /\ f \in oStuck THEN "old"
  ELSE "absent"

\* result.urls built from every quality whose output file exists.
ResultUrlsOfFiles(results, files) ==
  {q \in Quality : files[CompressedFile[q]] # "absent"}

\* The URLs compressVideoJob puts into result.urls: the successful
\* qualities whose output file exists.
ResultUrls(results, files) ==
  {q \in Quality : results[q] = "ok" /\ files[CompressedFile[q]] # "absent"}

\* One pass of the compression loop; after the last quality the successful
\* qualities are collected: none throws 'All quality compressions failed',
\* otherwise the result with its URLs is returned to processJob.
TranscodeEnds(outcome) ==
  /\ oPc = "transcode"
  /\ LET q == qualities[oIndex]
         results == [oResults EXCEPT ![q] = IF outcome = "ok" THEN "ok" ELSE "failed"]
         files == [oFiles EXCEPT ![CompressedFile[q]] =
                     FileAfterTranscode(CompressedFile[q], outcome)]
     IN  /\ oResults' = results
         /\ oFiles' = files
         /\ IF oIndex < NumQualities
            THEN /\ oIndex' = oIndex + 1
                 /\ UNCHANGED <<oPc, oUrls, oOutcome, oWebhook>>
            ELSE /\ UNCHANGED oIndex
                 /\ IF \A k \in Quality : results[k] # "ok"
                    THEN AttemptFails /\ UNCHANGED oUrls
                    ELSE /\ oUrls' = ResultUrls(results, files)
                         /\ oPc' = "hls"
                         /\ UNCHANGED <<oOutcome, oWebhook>>
  /\ UNCHANGED <<oStuck, oHls, oHlsUrls, oThumb, oThumbUrl, oWantThumb>>
  /\ OutFrame

\* processJob with a failed HLS stage ending the attempt.
HlsFailedFatal ==
  /\ oHls' = "failed"
  /\ UNCHANGED oHlsUrls
  /\ AttemptFails

\* processJob after a failed HLS stage: logged, the result keeps no hlsUrls.
HlsFailed ==
  /\ oHls' = "failed"
  /\ UNCHANGED oHlsUrls
  /\ oPc' = IF oWantThumb THEN "thumbnail" ELSE "complete"
  /\ UNCHANGED <<oOutcome, oWebhook>>

\* convertToHLSStreaming: the hls directory is made, every quality whose MP4
\* exists is segmented, and with at least one variant and a master playlist
\* the result gets hlsUrls.
HlsStage(converted, masterOk) ==
  /\ oPc = "hls"
  /\ converted \subseteq {q \in Quality : oFiles[CompressedFile[q]] # "absent"}
  /\ oFiles' = [oFiles EXCEPT !["hls"] = IF @ = "old" THEN "old" ELSE "new"]
  /\ IF converted # {} /\ masterOk
     THEN /\ oHls' = "ok"
          /\ oHlsUrls' = converted \cup {"master"}
          /\ oPc' = IF oWantThumb THEN "thumbnail" ELSE "complete"
          /\ UNCHANGED <<oOutcome, oWebhook>>
     ELSE HlsFailed
  /\ UNCHANGED <<oStuck, oIndex, oResults, oUrls, oThumb, oThumbUrl, oWantThumb>>
  /\ OutFrame

\* compressThumbnail: thumbnail.webp is written and its URL put into the
\* result, or the failure is logged.
ThumbnailStage(ok) ==
  /\ oPc = "thumbnail"
  /\ IF ok
     THEN /\ oFiles' = [oFiles EXCEPT !["thumbnail.webp"] = "new"]
          /\ oThumb' = "ok" /\ oThumbUrl' = TRUE
     ELSE /\ oThumb' = "failed"
          /\ UNCHANGED <<oFiles, oThumbUrl>>
  /\ oPc' = "complete"
  /\ UNCHANGED <<oStuck, oIndex, oResults, oUrls, oHls, oHlsUrls, oWantThumb,
                 oOutcome, oWebhook>>
  /\ OutFrame

\* processJob: progress 100, sendCompletionWebhook, return compressionResult.
AttemptCompletes ==
  /\ oPc = "complete"
  /\ oPc' = "done"
  /\ oOutcome' = "success"
  /\ oWebhook' = "completion"
  /\ UNCHANGED <<oFiles, oStuck, oIndex, oResults, oUrls, oHls, oHlsUrls, oThumb,
                 oThumbUrl, oWantThumb>>
  /\ OutFrame

InitOutputs ==
  InitBroker /\ InitProcess /\ InitQueueIdle /\ InitIoIdle /\ InitPipelineIdle

NextOutputs ==
  \/ \E earlier \in EarlierLayouts : \E wantThumb, dirOk \in BOOLEAN :
       AttemptStart(earlier, wantThumb, dirOk)
  \/ \E stuck \in SUBSET LayoutFiles : cleanupOldOutputs(stuck)
  \/ \E found \in BOOLEAN : SourceReady(found)
  \/ \E valid \in BOOLEAN : SourceValidated(valid)
  \/ \E outcome \in {"ok", "small", "error"} : TranscodeEnds(outcome)
  \/ \E converted \in SUBSET Quality : \E masterOk \in BOOLEAN :
       HlsStage(converted, masterOk)
  \/ \E ok \in BOOLEAN : ThumbnailStage(ok)
  \/ AttemptCompletes

SpecOutputs == InitOutputs /\ [][NextOutputs]_vars

\* ------------------------------------------------------ validateInputVideo

\* VIDEO_VALIDATION
MAX_DURATION == 300
MAX_SIZE_MB == 100
ALLOWED_CODECS == {"h264", "hevc", "h265", "vp8", "vp9", "prores", "mpeg4", "av1"}
ALLOWED_CONTAINERS == {"mp4", "mov", "webm", "mkv"}

BytesPerMB == 1024 * 1024

\* The sources validation is tried on: file sizes in bytes around the limit,
\* durations in milliseconds as ffprobe reports them, the codec name of the
\* first video stream ("none": the stream carries no codec_name), the
\* container getVideoInfo reports, and whether the probe found the file
\* unreadable (ffprobe error, no video stream, zero dimensions).
VSizes == {1024, 100 * BytesPerMB - 1, 100 * BytesPerMB, 100 * BytesPerMB + 1}
VDurations == {0, 299990, 300000, 300004, 300005, 300010}
VCodecs == {"h264", "hevc", "h265", "vp9", "av1", "wmv3", "none"}
VContainers == {"mp4", "mov", "webm", "mkv", "avi", "flv"}
VInputs ==
  [exists : BOOLEAN, size : VSizes, durationMs : VDurations, codec : VCodecs,
   container : VContainers, corrupted : BOOLEAN]

\* getVideoInfo: info.duration = Math.round(duration * 100) / 100, kept here
\* in hundredths of a second.
InfoDuration(in) == Round(in.durationMs, 10)

\* getVideoInfo: corrupted when the probe fails or the duration is not
\* positive; valid otherwise.
InfoCorrupted(in) == in.corrupted \/ InfoDuration(in) <= 0

\* validateInputVideo: the checks in the order of the code, the first that
\* fails gives the error_code.
validateInputVideo(in) ==
  IF ~in.exists THEN "FILE_NOT_FOUND"
  ELSE IF in.size > MAX_SIZE_MB * BytesPerMB THEN "FILE_TOO_LARGE"
  ELSE IF InfoCorrupted(in) THEN "VIDEO_CORRUPTED"
  ELSE IF InfoDuration(in) > MAX_DURATION * 100 THEN "DURATION_TOO_LONG"
  ELSE IF in.codec # "none" /\ in.codec \notin ALLOWED_CODECS THEN "INVALID_CODEC"
  ELSE "valid"

ValFrame == UNCHANGED <<brokerVars, processVars, hookVars, queueVars, pipeVars,
                        dlVars, outVars, apiVars>>

\* compressVideoJob calls validateInputVideo on the source.
ValidateSource ==
  /\ vResult = "none"
  /\ vResult' = validateInputVideo(vInput)
  /\ UNCHANGED vInput
  /\ ValFrame

InitValidate ==
  /\ InitBroker /\ InitProcess /\ InitQueueIdle /\ InitPipelineIdle
  /\ InitDownloadIdle /\ InitOutputsIdle /\ InitApiIdle
  /\ vInput \in VInputs
  /\ vResult = "none"

NextValidate == ValidateSource

SpecValidate == InitValidate /\ [][NextValidate]_vars

\* --------------------------------------- POST /api/webhook: admin actions
AdminFrame == UNCHANGED <<flagVars, instVars, coVars, hookVars, envVars, logVars,
                          queueVars, pipeVars, dlVars, outVars, valVars, rlVars,
                          rgVars, tsVars, extVars>>

\* A retry that answers true for a completed job as well.
RetryJobAnyFinished(j) ==
  LET can == brokerUp /\ jobState[j] \in {"failed", "completed"}
  IN  /\ adminCall' = [action |-> "retry", job |-> j, was |-> jobState[j],
                       answer |-> can]
      /\ IF can THEN RequeueJob(j) ELSE UNCHANGED brokerVars
      /\ AdminFrame

\* action 'retry': retryFailedJob(jobId) looks the job up and calls
\* job.retry(), which throws unless the job is in the failed set; no job, a
\* throw and an unreachable broker all answer false (400 RETRY_FAILED).
RetryJob(j) ==
  LET can == brokerUp /\ jobState[j] = "failed"
  IN  /\ adminCall' = [action |-> "retry", job |-> j, was |-> jobState[j],
                       answer |-> can]
      /\ IF can THEN RequeueJob(j) ELSE UNCHANGED brokerVars
      /\ AdminFrame

\* action 'cancel': removeJob(jobId) looks the job up and calls job.remove(),
\* which throws for a job that a worker holds locked; no job, a throw and an
\* unreachable broker all answer false (400 CANCEL_FAILED).
CancelJob(j) ==
  LET can == brokerUp /\ jobState[j] # "absent" /\ lockOwner[j] = NoWorker
  IN  /\ adminCall' = [action |-> "cancel", job |-> j, was |-> jobState[j],
                       answer |-> can]
      /\ IF can THEN DeleteJob(j) ELSE UNCHANGED brokerVars
      /\ AdminFrame

\* A started worker with a waiting job, broker outages and the supervisor's
\* restarts, and an administrator who retries and cancels at any time.
InitAdmin == InitRecovery

BrokerDownAdmin == BrokerFails(MaxAdminOutages)

NextAdmin ==
  \/ BrokerDownAdmin \/ BrokerRecovers
  \/ \E i \in WorkerIds, kind \in ErrorKinds : WorkerError(i, kind)
  \/ \E i \in WorkerIds : WorkerRedisClose(i)
  \/ \E i \in WorkerIds : Reconnect(i)
  \/ RestartAfterClose \/ RestartCloseFailed
  \/ RestartTimerFires \/ RestartStartWorkerDone \/ RestartStartWorkerThrows
  \/ \E i \in WorkerIds, j \in JobIds : Claim(i, j)
  \/ \E i \in WorkerIds : HandlerEnter(i)
  \/ \E i \in WorkerIds, result \in {"success", "failure"} : ProcessJobReturns(i, result)
  \/ \E i \in WorkerIds : CloseResolves(i)
  \/ \E i \in WorkerIds : CloseRejects(i)
  \/ \E j \in JobIds : LockExpires(j)
  \/ \E i \in WorkerIds, j \in JobIds : StalledCheck(i, j)
  \/ \E j \in JobIds : RetryJob(j)
  \/ \E j \in JobIds : CancelJob(j)

SpecAdmin == InitAdmin /\ [][NextAdmin]_vars

\* ------------------------------------------- the middleware's rate limit
\* One client IP (the key getClientIP computes) sends requests to paths under
\* /api/. rlEntry is the IP's entry of ipRequestCounts, windowStart = -1
\* stands for no entry. rlAdmitted counts, per instant, the requests that were
\* passed on to the route.
RATE_LIMIT_WINDOW == 60000
RATE_LIMIT_MAX == 100

\* The instants (values of Date.now(), in ms) at which requests arrive.
RateInstants == {0, 30000, 60001}
RateMethods == {"GET", "POST", "OPTIONS"}

\* Math.ceil(a / b) for a >= 0.
CeilDiv(a, b) == (a + b - 1) \div b

RateFrame == UNCHANGED <<brokerVars, processVars, hookVars, queueVars, pipeVars,
                         dlVars, outVars, valVars, adminVars, rgVars, tsVars,
                         extVars>>

RateAdmit(entry) ==
  /\ rlEntry' = entry
  /\ rlAdmitted' = [rlAdmitted EXCEPT ![rlNow] = @ + 1]
  /\ rlStatus' = "next"
  /\ rlRetryAfter' = 0

\* middleware(request) for a path under /api/.
middleware(method) ==
  /\ IF method = "OPTIONS"
     THEN \* the preflight is answered 204 before the limit is looked at
          /\ rlStatus' = "204"
          /\ rlRetryAfter' = 0
          /\ UNCHANGED <<rlEntry, rlAdmitted>>
     ELSE IF rlEntry.windowStart # -1
     THEN IF rlNow - rlEntry.windowStart > RATE_LIMIT_WINDOW
          THEN RateAdmit([count |-> 1, windowStart |-> rlNow])
          ELSE IF rlEntry.count >= RATE_LIMIT_MAX
          THEN /\ rlStatus' = "429"
               /\ rlRetryAfter' =
                    CeilDiv(RATE_LIMIT_WINDOW - (rlNow - rlEntry.windowStart), 1000)
               /\ UNCHANGED <<rlEntry, rlAdmitted>>
          ELSE RateAdmit([rlEntry EXCEPT !.count = @ + 1])
     ELSE RateAdmit([count |-> 1, windowStart |-> rlNow])
  /\ UNCHANGED rlNow
  /\ RateFrame

\* Time passes to the next instant.
RateTick ==
  /\ \E t \in RateInstants :
       /\ t > rlNow
       /\ \A u \in RateInstants : u > rlNow => t <= u
       /\ rlNow' = t
  /\ UNCHANGED <<rlEntry, rlAdmitted, rlStatus, rlRetryAfter>>
  /\ RateFrame

InitRateLimit ==
  /\ InitBroker /\ InitProcess /\ InitQueueIdle /\ InitPipelineIdle
  /\ InitDownloadIdle /\ InitOutputsIdle /\ InitValidateIdle
  /\ InitAdminIdle /\ InitRangeIdle /\ InitShouldSendIdle /\ InitExtIdle
  /\ rlNow = 0
  /\ rlEntry = [count |-> 0, windowStart |-> -1]
  /\ rlAdmitted = [t \in RateInstants |-> 0]
  /\ rlStatus = "none"
  /\ rlRetryAfter = 0

NextRateLimit ==
  \/ \E method \in RateMethods : middleware(method)
  \/ RateTick

SpecRateLimit == InitRateLimit /\ [][NextRateLimit]_vars

\* ------------------------------------------- the content route's ranges
\* GET /content/<path> for a file that exists. rgSize is stats.size,
\* rgStreamable says whether the extension is in STREAMABLE_EXTENSIONS, and
\* rgHeader is the Range header as text: unit "none" stands for no header,
\* first and last are the digit strings the groups of /bytes=(\d*)-(\d*)/
\* match, unit "items" is a header the expression does not match.
RangeSizes == {0, 1, 2, 10, 200}
RangeNumbers == (0 .. 11) \cup {199, 200, 201, 500}

\* String(n): a number written in decimal.
RECURSIVE DecimalDigits(_)
DecimalDigits(n) ==
  IF n < 10 THEN <<n>> ELSE Append(DecimalDigits(n \div 10), n % 10)

\* parseInt(text, 10) of a string of digits.
RECURSIVE parseInt(_)
parseInt(text) ==
  IF Len(text) = 0 THEN 0
  ELSE 10 * parseInt(SubSeq(text, 1, Len(text) - 1)) + text[Len(text)]

RangeTexts ==
  {<<>>, <<0, 0>>, <<0, 7>>} \cup {DecimalDigits(n) : n \in RangeNumbers}

RangeHeaders ==
  [unit : {"bytes"}, first : RangeTexts, last : RangeTexts]
    \cup [unit : {"none", "items"}, first : {<<>>}, last : {<<>>}]

NoRange == [start |-> -1, end |-> -1]

\* bytes=-k: the last k bytes.
SuffixRange(suffixLength, fileSize) ==
  IF suffixLength <= 0 THEN NoRange
  ELSE [start |-> Max(0, fileSize - suffixLength), end |-> fileSize - 1]

\* The explicit branch read as an open-ended one: end = fileSize - 1.
ExplicitRangeToEnd(first, last, fileSize) ==
  [start |-> parseInt(first), end |-> fileSize - 1]

\* bytes=a-b
ExplicitRange(first, last, fileSize) ==
  [start |-> parseInt(first), end |-> parseInt(last)]

\* parseRangeHeader(rangeHeader, fileSize); NoRange stands for null.
parseRangeHeader(header, fileSize) ==
  IF header.unit # "bytes" THEN NoRange
  ELSE
    LET hasStart == header.first # <<>>
        hasEnd == header.last # <<>>
        range ==
          IF ~hasStart /\ hasEnd THEN SuffixRange(parseInt(header.last), fileSize)
          ELSE IF hasStart /\ ~hasEnd
          THEN [start |-> parseInt(header.first), end |-> fileSize - 1]
          ELSE IF hasStart /\ hasEnd
          THEN ExplicitRange(header.first, header.last, fileSize)
          ELSE NoRange
    IN  IF range = NoRange THEN NoRange
        ELSE IF range.start < 0 \/ range.end < 0 \/ range.start > range.end
                \/ range.start >= fileSize
        THEN NoRange
        ELSE [start |-> range.start, end |-> Min(range.end, fileSize - 1)]

RangeFrame == UNCHANGED <<brokerVars, processVars, hookVars, queueVars, pipeVars,
                          dlVars, outVars, valVars, adminVars, rlVars, tsVars,
                          extVars>>

\* GET from the Range header on: 416, 206 or 200 with the whole file.
GET ==
  /\ rgResponse.status = 0
  /\ rgResponse' =
       IF rgHeader.unit # "none" /\ rgStreamable
       THEN LET range == parseRangeHeader(rgHeader, rgSize)
            IN  IF range = NoRange
                THEN [status |-> 416, length |-> -1, from |-> -1, to |-> -1,
                      of |-> rgSize]
                ELSE [status |-> 206, length |-> range.end - range.start + 1,
                      from |-> range.start, to |-> range.end, of |-> rgSize]
       ELSE [status |-> 200, length |-> rgSize, from |-> -1, to |-> -1, of |-> -1]
  /\ UNCHANGED <<rgSize, rgStreamable, rgHeader>>
  /\ RangeFrame

InitRange ==
  /\ InitBroker /\ InitProcess /\ InitQueueIdle /\ InitPipelineIdle
  /\ InitDownloadIdle /\ InitOutputsIdle /\ InitValidateIdle
  /\ InitAdminIdle /\ InitRateIdle /\ InitShouldSendIdle /\ InitExtIdle
  /\ rgSize \in RangeSizes
  /\ rgStreamable \in BOOLEAN
  /\ rgHeader \in RangeHeaders
  /\ rgResponse = [status |-> 0, length |-> 0, from |-> 0, to |-> 0, of |-> 0]

NextRange == GET

SpecRange == InitRange /\ [][NextRange]_vars

\* ------------------------------------- the throttler with Date.now() in ms
\* One job's entries of WebhookThrottler: tsEntry.progress = NoEntry stands for
\* no entry in either map. tsNow is Date.now(), tsProgress the percent of the
\* event at hand, tsResult what shouldSend answered for it.
TsStart == 10000
TsMaxNow == 19500
TsSteps == {0, 2999, 3000, 3001}
TsPercents == {0, 1, 4, 5, 6, 100}

\* shouldSend(jobId, newProgress) at the instant instant: whether it allows.
shouldSendAt(entry, newProgress, instant) ==
  LET lastProg == IF entry.progress = NoEntry THEN 0 ELSE entry.progress
      lastTime == IF entry.progress = NoEntry THEN 0 ELSE entry.time
  IN  \/ newProgress - lastProg >= 5
      \/ instant - lastTime > 3000
      \/ newProgress = 100
      \/ (newProgress = 0 /\ lastProg = 0)

TsFrame == UNCHANGED <<brokerVars, processVars, hookVars, queueVars, pipeVars,
                       dlVars, outVars, valVars, adminVars, rlVars, rgVars,
                       extVars>>

\* A progress event with the percent p arrives, step ms after the one before.
TsEvent(p, step) ==
  /\ tsResult # "none"
  /\ tsNow + step <= TsMaxNow
  /\ tsNow' = tsNow + step
  /\ tsProgress' = p
  /\ tsResult' = "none"
  /\ UNCHANGED tsEntry
  /\ TsFrame

\* webhookThrottler.shouldSend(jobId, percent) for the event at hand.
TsShouldSend ==
  /\ tsResult = "none"
  /\ IF shouldSendAt(tsEntry, tsProgress, tsNow)
     THEN /\ tsEntry' = [progress |-> tsProgress, time |-> tsNow]
          /\ tsResult' = "allow"
     ELSE /\ tsResult' = "skip"
          /\ UNCHANGED tsEntry
  /\ UNCHANGED <<tsNow, tsProgress>>
  /\ TsFrame

\* webhookThrottler.cleanup(jobId)
TsCleanup ==
  /\ tsResult # "none"
  /\ tsEntry.progress # NoEntry
  /\ tsEntry' = [progress |-> NoEntry, time |-> 0]
  /\ UNCHANGED <<tsNow, tsProgress, tsResult>>
  /\ TsFrame

InitShouldSend ==
  /\ InitBroker /\ InitProcess /\ InitQueueIdle /\ InitPipelineIdle
  /\ InitDownloadIdle /\ InitOutputsIdle /\ InitValidateIdle
  /\ InitAdminIdle /\ InitRateIdle /\ InitRangeIdle /\ InitExtIdle
  /\ tsEntry = [progress |-> NoEntry, time |-> 0]
  /\ tsNow = TsStart
  /\ tsProgress = 0
  /\ tsResult = "idle"

NextShouldSend ==
  \/ \E p \in TsPercents, step \in TsSteps : TsEvent(p, step)
  \/ TsShouldSend
  \/ TsCleanup

SpecShouldSend == InitShouldSend /\ [][NextShouldSend]_vars

\* ---------------------------------------------------------- sendWebhook
WEBHOOK_RETRY_DELAY == 2000

\* What one sendWebhookOnce ends with: the status of the response, or 0 for a
\* request error or the 30 s timeout.
WebhookStatuses == {0, 200, 204, 302, 404, 500}

\* statusCode >= 200 && statusCode < 300
WebhookOk(status) == status >= 200 /\ status < 300

\* A retry delay that does not grow with the attempt.
RetryDelayFlat(attempt) == WEBHOOK_RETRY_DELAY

\* delayMs = WEBHOOK_RETRY_DELAY * attempt
RetryDelay(attempt) == WEBHOOK_RETRY_DELAY * attempt

WhFrame == UNCHANGED <<brokerVars, processVars, hookVars, queueVars, pipeVars,
                       dlVars, outVars, valVars, adminVars, rlVars, rgVars,
                       tsVars, mpVars>>

\* sendWebhook(payload) is called: without a URL it returns { success: true }.
sendWebhook ==
  /\ whPc = "idle"
  /\ IF whUrl
     THEN /\ whPc' = "post"
          /\ whAttempt' = 1
          /\ UNCHANGED whResult
     ELSE /\ whPc' = "done"
          /\ whResult' = "success"
          /\ UNCHANGED whAttempt
  /\ UNCHANGED <<whUrl, whLog>>
  /\ WhFrame

\* await sendWebhookOnce(payload, url, cfg) settled.
sendWebhookOnce(status) ==
  /\ whPc = "post"
  /\ whLog' = Append(whLog, [kind |-> "post", value |-> status])
  /\ IF WebhookOk(status)
     THEN whPc' = "done" /\ whResult' = "success"
     ELSE IF whAttempt < WEBHOOK_MAX_RETRIES
     THEN whPc' = "sleep" /\ UNCHANGED whResult
     ELSE whPc' = "done" /\ whResult' = "failure"
  /\ UNCHANGED <<whUrl, whAttempt>>
  /\ WhFrame

\* await sleep(delayMs) returned and the loop goes to the next attempt.
WebhookSleep ==
  /\ whPc = "sleep"
  /\ whLog' = Append(whLog, [kind |-> "sleep", value |-> RetryDelay(whAttempt)])
  /\ whAttempt' = whAttempt + 1
  /\ whPc' = "post"
  /\ UNCHANGED <<whUrl, whResult>>
  /\ WhFrame

InitWebhook ==
  /\ InitBroker /\ InitProcess /\ InitQueueIdle /\ InitPipelineIdle
  /\ InitDownloadIdle /\ InitOutputsIdle /\ InitValidateIdle
  /\ InitAdminIdle /\ InitRateIdle /\ InitRangeIdle /\ InitShouldSendIdle
  /\ InitMasterIdle
  /\ whUrl \in BOOLEAN
  /\ whPc = "idle"
  /\ whAttempt = 0
  /\ whLog = <<>>
  /\ whResult = "none"

NextWebhook ==
  \/ sendWebhook
  \/ \E status \in WebhookStatuses : sendWebhookOnce(status)
  \/ WebhookSleep

SpecWebhook == InitWebhook /\ [][NextWebhook]_vars

\* ------------------------------------------------- convertToHLSStreaming
\* One call: the loop over the qualities, each convertToHLS with what became
\* of it, and generateMasterPlaylist.

\* The master playlist's order taken from the loop over the qualities.
qualityOrderOfLoop == qualities

\* qualityOrder of generateMasterPlaylist
qualityOrder == <<"144p", "240p", "360p", "480p">>

MpFrame == UNCHANGED <<brokerVars, processVars, hookVars, queueVars, pipeVars,
                       dlVars, outVars, valVars, adminVars, rlVars, rgVars,
                       tsVars, whVars>>

\* The loop finds no file for the quality: 'Skipping - file not found'.
HlsSkip ==
  /\ mpIndex \in 1 .. NumQualities
  /\ qualities[mpIndex] \notin mpExists
  /\ mpOutcome' = [mpOutcome EXCEPT ![qualities[mpIndex]] = "skipped"]
  /\ mpIndex' = mpIndex + 1
  /\ UNCHANGED <<mpExists, mpAvailable, mpMaster, mpResult>>
  /\ MpFrame

\* await convertToHLS(..) settled for the quality: ok with segments, empty
\* with a playlist and no segment (success, segmentCount 0), or error.
HlsConvert(outcome) ==
  /\ mpIndex \in 1 .. NumQualities
  /\ qualities[mpIndex] \in mpExists
  /\ mpOutcome' = [mpOutcome EXCEPT ![qualities[mpIndex]] = outcome]
  /\ mpAvailable' = IF outcome = "ok"
                    THEN Append(mpAvailable, qualities[mpIndex])
                    ELSE mpAvailable
  /\ mpIndex' = mpIndex + 1
  /\ UNCHANGED <<mpExists, mpMaster, mpResult>>
  /\ MpFrame

\* The entries generateMasterPlaylist writes for convertedQualities.
MasterVariants(converted) ==
  SelectSeq(qualityOrder, LAMBDA q : q \in converted)

\* After the loop: without a converted quality the call throws and returns a
\* failure; else generateMasterPlaylist writes master.m3u8, or fails to.
generateMasterPlaylist(writeOk) ==
  /\ mpIndex = NumQualities + 1
  /\ mpResult = "none"
  /\ LET converted == {mpAvailable[k] : k \in 1 .. Len(mpAvailable)}
     IN  IF converted = {}
         THEN mpResult' = "failed" /\ UNCHANGED mpMaster
         ELSE IF writeOk
         THEN /\ mpMaster' = [written |-> TRUE, variants |-> MasterVariants(converted)]
              /\ mpResult' = "ok"
         ELSE mpResult' = "failed" /\ UNCHANGED mpMaster
  /\ UNCHANGED <<mpExists, mpIndex, mpOutcome, mpAvailable>>
  /\ MpFrame

InitMaster ==
  /\ InitBroker /\ InitProcess /\ InitQueueIdle /\ InitPipelineIdle
  /\ InitDownloadIdle /\ InitOutputsIdle /\ InitValidateIdle
  /\ InitAdminIdle /\ InitRateIdle /\ InitRangeIdle /\ InitShouldSendIdle
  /\ InitWebhookIdle
  /\ mpExists \in SUBSET Quality
  /\ mpIndex = 1
  /\ mpOutcome = [q \in Quality |-> "none"]
  /\ mpAvailable = <<>>
  /\ mpMaster = [written |-> FALSE, variants |-> <<>>]
  /\ mpResult = "none"

NextMaster ==
  \/ HlsSkip
  \/ \E outcome \in {"ok", "empty", "error"} : HlsConvert(outcome)
  \/ \E writeOk \in BOOLEAN : generateMasterPlaylist(writeOk)

SpecMaster == InitMaster /\ [][NextMaster]_vars

\* ---------------------------------------------------------------- claims
\* The lifecycle state of the specification for a broker state.
Lifecycle(st) ==
  CASE st = "waiting" -> "pending"
    [] st = "active" -> "processing"
    [] OTHER -> st

\* C1: a job whose attempt ended in error (processJob returned
\* success = false) is never recorded as completed; the retry policy applies.
C1_FailedAttemptNotCompleted ==
  \A j \in JobIds : jobState[j] = "completed" => returnvalue[j] = "success"

\* C2: in the webhook deliveries of a job no progress event comes after a
\* terminal (completion or failure) event.
C2_NoProgressAfterTerminal ==
  \A a, b \in 1 .. Len(delivered) :
    a < b => ~(delivered[a][1] = "terminal" /\ delivered[b][1] = "progress")

\* C3: the progress webhooks of a job reach the endpoint in non-decreasing
\* percent order.
C3_ProgressInOrder ==
  \A a, b \in 1 .. Len(delivered) :
    (a < b /\ delivered[a][1] = "progress" /\ delivered[b][1] = "progress")
      => delivered[a][2] <= delivered[b][2]

\* C4: within one attempt every write of the stored progress keeps it in
\* 0 .. 100 and stores a value not below the one stored before.
C4_ProgressNeverDecreases ==
  [][\A j \in JobIds : /\ jobProgress'[j] \in 0 .. 100
                       /\ jobProgress'[j] >= jobProgress[j]]_vars

\* C5: no two attempts of the same job run at the same time: at most one
\* Worker instance is inside processJob for a given job.
C5_OneAttemptPerJob ==
  \A j \in JobIds :
    Cardinality({i \in WorkerIds : wJob[i] = j /\ wPhase[i] = "processing"}) <= 1

\* C6: no enqueueJob call gets past queue.add towards a success result
\* while a job of its jobId is waiting, active or delayed; such a call is
\* rejected.
C6_DuplicateRejected ==
  [][\A c \in Callers :
       (epc[c] = "add" /\ epc'[c] = "count")
         => jobState[eJobId[c]] \notin NonTerminal]_vars

\* C7 (as stated): the lifecycle state of a job changes only along
\* pending -> processing, processing -> completed, processing -> delayed,
\* delayed -> pending, processing -> failed and processing -> pending.
C7_ListedTransitions ==
  {<<"pending", "processing">>, <<"processing", "completed">>,
   <<"processing", "delayed">>, <<"delayed", "pending">>,
   <<"processing", "failed">>, <<"processing", "pending">>}

RestartUnderWay ==
  pendingTimers > 0 \/ restartsRunning > 0 \/ srPc = "closing"

\* After an outage a running, connected Worker exists again, and the process
\* is never left with no worker and no restart under way.
C8_WorkerReturns ==
  /\ [](Alive /\ worker = NoWorker => RestartUnderWay)
  /\ (outages > 0)
       ~> (~Alive \/ \E i \in WorkerIds : wState[i] = "running" /\ Connected(i))

C9_SignalLeadsToExitZero == isShuttingDown ~> (exitCode = 0)

\* C10: at most one restart is under way: a scheduleWorkerRestart awaiting
\* worker.close(), a pending restart timer, or a restart callback inside
\* startWorker().
C10_OneRestart ==
  pendingTimers + restartsRunning + (IF srPc = "closing" THEN 1 ELSE 0) <= 1

\* A further event asked for a restart while one was under way, and was
\* dropped.
C10_Witness ==
  /\ duplicateSkipped
  /\ pendingTimers + restartsRunning + (IF srPc = "closing" THEN 1 ELSE 0) = 1

\* C11: once the shutdown flag is set no Worker is constructed: no instance
\* that was not running becomes a running instance.
C11_NoWorkerAfterShutdown ==
  [][isShuttingDown =>
       \A i \in WorkerIds : wState'[i] = "running" => wState[i] = "running"]_vars

\* The ranges of hosts no connection may be opened to: localhost, 127.*,
\* 10.*, 172.16-31.*, 192.168.*, 169.254.*, 0.* and the IPv6 loopback.
InPrivateRanges(h) ==
  \/ h = Name(<<"localhost">>)
  \/ h = Ip6("[::1]")
  \/ /\ h.kind = "ip4"
     /\ \/ h.octets[1] \in {0, 10, 127}
        \/ h.octets[1] = 172 /\ h.octets[2] \in 16 .. 31
        \/ h.octets[1] = 192 /\ h.octets[2] = 168
        \/ h.octets[1] = 169 /\ h.octets[2] = 254

\* C12: no connection is ever opened to a host in the private, loopback or
\* link-local ranges, whatever the allowlist holds and also after a redirect.
C12_NoPrivateConnection ==
  \A h \in dlConnections : ~InPrivateRanges(h)

\* C13: a job whose video URL the download policy rejects fails each of its
\* attempts at the download step (processJob returns the failure), and over
\* its whole lifetime at most one failure webhook is sent for it.
C13_OneFailureWebhook ==
  \A j \in JobIds : returnvalue[j] # "success" => failureWebhooks[j] <= 1

\* The qualities whose transcode succeeded in the attempt.
Succeeded == {q \in Quality : oResults[q] = "ok"}

\* C14: once the four transcodes have settled, with no successful quality
\* the attempt has failed, and with a non-empty set S of successful
\* qualities the attempt goes on, the MP4 URLs of its result are exactly
\* those of S, and it ends as a success.
C14_SuccessfulSubset ==
  (\A q \in Quality : oResults[q] # "none" /\ oPc # "transcode") =>
    IF Succeeded = {}
    THEN oOutcome = "failure" /\ oUrls = {}
    ELSE /\ oOutcome # "failure"
         /\ oUrls = Succeeded
         /\ oPc = "done" => oOutcome = "success"

\* 480p, 360p and 144p succeeded, 240p failed, and the attempt ended.
C14_Witness ==
  /\ oPc = "done"
  /\ Succeeded = {"480p", "360p", "144p"}
  /\ oUrls = {"480p", "360p", "144p"}
  /\ oOutcome = "success"

\* C15: an attempt whose compression stage succeeded ends with a successful
\* result and a completion webhook whether or not the HLS stage or the
\* thumbnail stage failed; after a failed HLS stage the result has no HLS
\* URLs, after a failed thumbnail stage it has no thumbnail URL.
C15_OptionalStagesNonFatal ==
  /\ (oPc = "done" /\ Succeeded # {}) =>
       oOutcome = "success" /\ oWebhook = "completion"
  /\ oHls = "failed" => oHlsUrls = {}
  /\ oThumb = "failed" => ~oThumbUrl

\* An attempt ended whose HLS stage and thumbnail stage both failed.
C15_Witness ==
  /\ oPc = "done" /\ oHls = "failed" /\ oThumb = "failed"
  /\ oOutcome = "success" /\ oWebhook = "completion"

\* C16: once an attempt is past its start (at download, validation,
\* transcode, the later stages, and when it has ended) the job's directory
\* holds no file of an earlier attempt: every file in it was written by this
\* attempt.
C16_OnlyOwnFiles ==
  oPc \notin {"idle", "cleanup"} => \A f \in LayoutFiles : oFiles[f] # "old"

\* C17: for a readable source, validation accepts exactly when the duration
\* is at most 300 s, the size at most 100 MiB, the codec one of h264, hevc,
\* vp8, vp9, prores, mpeg4, av1 and the container one of mp4, mov, webm,
\* mkv; a rejection carries the error kind of a limit the source breaks.
WithinLimits(in) ==
  /\ in.durationMs <= 300 * 1000
  /\ in.size <= 100 * 1024 * 1024
  /\ in.codec \in {"h264", "hevc", "vp8", "vp9", "prores", "mpeg4", "av1"}
  /\ in.container \in {"mp4", "mov", "webm", "mkv"}

C17_ValidationLimits ==
  (vResult # "none" /\ vInput.exists /\ ~vInput.corrupted /\ vInput.durationMs > 0) =>
    /\ vResult = "valid" <=> WithinLimits(vInput)
    /\ vResult = "DURATION_TOO_LONG" => vInput.durationMs > 300 * 1000
    /\ vResult = "FILE_TOO_LARGE" => vInput.size > 100 * 1024 * 1024
    /\ vResult = "INVALID_CODEC" =>
         vInput.codec \notin {"h264", "hevc", "vp8", "vp9", "prores", "mpeg4", "av1"}

\* C18: once the terminal (completion or failure) webhook of a job was sent
\* the throttler holds no entry for the job; with the attempt over no job is
\* being processed, so the throttler holds no entry at all.
C18_NoEntryAfterTerminal ==
  pStage \in {"returned", "done"} => lastProgress = NoEntry

\* C19: of an attempt with RawEvents ffmpeg progress events the endpoint
\* receives at most ten webhooks, and when the attempt has ended with
\* success the last webhook received carries progress 100 (the stage of
\* every webhook with progress 100 is 'complete').
C19_AtMostTenEvents ==
  progressEvents = RawEvents =>
    /\ Len(delivered) <= 10
    /\ (pStage = "done" /\ pResult = "success" /\ delivered # <<>>) =>
         delivered[Len(delivered)][2] = 100

\* C20: the record of a completed or failed job is immutable: no step
\* changes its stored state, result, error or progress.
C20_TerminalImmutable ==
  [][\A j \in JobIds :
       jobState[j] \in {"completed", "failed"} =>
         /\ jobState'[j] = jobState[j]
         /\ returnvalue'[j] = returnvalue[j]
         /\ failedReason'[j] = failedReason[j]
         /\ jobProgress'[j] = jobProgress[j]]_vars

\* C21: a cancel from the admin API called for a job the broker holds, the
\* broker being reachable, removes the job from the broker, also when the
\* job is being processed.
C21_CancelRemoves ==
  [][\A j \in JobIds :
       (/\ adminCall' # adminCall
        /\ adminCall'.action = "cancel" /\ adminCall'.job = j
        /\ brokerUp /\ jobState[j] # "absent")
       => jobState'[j] = "absent"]_vars

\* C22: retry answers true only for a job in the failed state, which it
\* puts back to waiting; for a job in any other state, and for a job the
\* broker does not hold, it answers false and changes nothing in the broker.
C22_RetryOnlyFailed ==
  [][\A j \in JobIds :
       (adminCall' # adminCall /\ adminCall'.action = "retry" /\ adminCall'.job = j)
       => /\ adminCall'.answer => (jobState[j] = "failed" /\ jobState'[j] = "waiting")
          /\ jobState[j] # "failed" =>
               (~adminCall'.answer /\ UNCHANGED brokerVars)]_vars

\* A retry of a failed job was answered true and the job waits again.
C22_Witness ==
  /\ adminCall.action = "retry" /\ adminCall.was = "failed" /\ adminCall.answer
  /\ \E j \in JobIds : adminCall.job = j /\ jobState[j] = "waiting"

\* C23: no job is ever claimed for processing more than JobAttempts times.
C23_AttemptsBounded ==
  \A j \in JobIds : attemptsStarted[j] <= JobAttempts

\* C27: a restart scheduled after k consecutive failures (k = 0 for the
\* first restart after a healthy run) gets the delay min(5000 * 2^k, 60000)
\* milliseconds.
C27_RestartDelay ==
  [][restartAttempts' = restartAttempts + 1 =>
       restartDelay' = Min(5000 * Pow2(restartAttempts), 60000)]_vars

\* C28: at most one Worker instance that was not closed exists in the
\* process, and the attempts running at once do not exceed the concurrency
\* cap.
C28_OneWorkerInstance ==
  /\ Cardinality({i \in WorkerIds : wState[i] \in {"running", "paused", "closing"}}) <= 1
  /\ Cardinality({i \in WorkerIds : wPhase[i] = "processing"}) <= ParallelLimit

\* C29: once the initial start has finished, and while the process runs and
\* is not shutting down, worker = null implies that a restart is scheduled
\* or in progress.
C29_NeverWithoutWorker ==
  (Alive /\ startupPc = "done" /\ ~isShuttingDown /\ worker = NoWorker)
    => (isRestartScheduled \/ isRestarting)

\* C29 witness: after startup, not shutting down, the restart callback is
\* inside startWorker() after an earlier restart attempt failed, and no worker
\* is referenced.
C29_Witness ==
  /\ Alive /\ startupPc = "done" /\ ~isShuttingDown
  /\ worker = NoWorker /\ isRestarting /\ restartAttempts >= 2

\* The requests passed on at the instants from s to t.
RECURSIVE AdmittedIn(_)
AdmittedIn(T) ==
  IF T = {} THEN 0
  ELSE LET t == CHOOSE u \in T : TRUE
       IN  rlAdmitted[t] + AdmittedIn(T \ {t})

\* C24: in any interval shorter than 60 seconds at most 100 requests of the
\* client IP to /api/ are passed on, and a request that is not passed on is
\* answered 429 with a Retry-After.
C24_AtMostHundredPerWindow ==
  /\ \A s, t \in RateInstants :
       (s <= t /\ t - s < RATE_LIMIT_WINDOW) =>
         AdmittedIn({u \in RateInstants : s <= u /\ u <= t}) <= RATE_LIMIT_MAX
  /\ rlStatus = "429" => rlRetryAfter >= 0

\* The Range header `bytes=<first>-<last>` as the client writes it.
BytesRange(first, last) == [unit |-> "bytes", first |-> first, last |-> last]

\* The 206 answer that covers the bytes from a to b of a file of n bytes.
Partial(a, b, n) ==
  [status |-> 206, length |-> b - a + 1, from |-> a, to |-> b, of |-> n]

\* C25: on a streamable file of size n, `Range: bytes=a-b` with
\* 0 <= a <= b < n is answered 206 with Content-Length b - a + 1 and
\* Content-Range `bytes a-b/n`.
C25_ExplicitRange ==
  (rgResponse.status # 0 /\ rgStreamable) =>
    \A a, b \in RangeNumbers :
      (/\ rgHeader = BytesRange(DecimalDigits(a), DecimalDigits(b))
       /\ 0 <= a /\ a <= b /\ b < rgSize)
        => rgResponse = Partial(a, b, rgSize)

\* C25 witness: a range strictly inside the file was answered.
C25_Witness ==
  /\ rgStreamable /\ rgResponse.status = 206
  /\ \E a, b \in RangeNumbers :
       /\ rgHeader = BytesRange(DecimalDigits(a), DecimalDigits(b))
       /\ 0 < a /\ a < b /\ b < rgSize - 1

\* A range no byte of a non-empty file lies in: a first position at or after
\* the end, or a suffix of length 0.
Unsatisfiable(header, n) ==
  /\ header.unit = "bytes" /\ n > 0
  /\ \/ \E a \in RangeNumbers : header.first = DecimalDigits(a) /\ a >= n
     \/ /\ header.first = <<>>
        /\ \E k \in RangeNumbers : header.last = DecimalDigits(k) /\ k = 0

\* C26: on a streamable file of size n, `bytes=-k` with k >= n and `bytes=0-`
\* are answered 206 covering the whole file, whatever n is, and a range that
\* cannot be satisfied is answered 416.
C26_RangeEdges ==
  (rgResponse.status # 0 /\ rgStreamable) =>
    /\ \A k \in RangeNumbers :
         (rgHeader = BytesRange(<<>>, DecimalDigits(k)) /\ k >= rgSize /\ k > 0)
           => rgResponse = Partial(0, rgSize - 1, rgSize)
    /\ rgHeader = BytesRange(<<0>>, <<>>)
         => rgResponse = Partial(0, rgSize - 1, rgSize)
    /\ Unsatisfiable(rgHeader, rgSize) => rgResponse.status = 416

\* C30: an event with the percent p is let through exactly when p is at least
\* 5 above the last sent percent, or at least 3 s have passed since the last
\* send (or nothing was sent yet), or p = 100, or p = 0 and the last sent
\* percent is 0; an event let through becomes the last sent percent and time,
\* a dropped one changes nothing.
C30_ThrottleRule ==
  [][(tsResult = "none" /\ tsResult' # "none") =>
       LET last == IF tsEntry.progress = NoEntry THEN 0 ELSE tsEntry.progress
           through ==
             \/ tsProgress >= last + 5
             \/ tsEntry.progress = NoEntry
             \/ tsNow - tsEntry.time >= 3000
             \/ tsProgress = 100
             \/ (tsProgress = 0 /\ last = 0)
       IN  /\ tsResult' = "allow" <=> through
           /\ tsResult' = "allow" =>
                tsEntry' = [progress |-> tsProgress, time |-> tsNow]
           /\ tsResult' = "skip" => tsEntry' = tsEntry]_vars

\* The positions of the POSTs in the record of the dispatch.
WhPosts == {i \in 1 .. Len(whLog) : whLog[i].kind = "post"}

\* C31: one dispatch makes at most 3 POSTs, none after a 2xx answer, sleeps
\* 2 s after the first failed POST and 4 s after the second and not after the
\* third, and reports success exactly when a POST got a 2xx answer; without a
\* URL it makes no request and reports success.
C31_WebhookDispatch ==
  /\ Cardinality(WhPosts) <= WEBHOOK_MAX_RETRIES
  /\ \A i \in WhPosts : WebhookOk(whLog[i].value) => i = Len(whLog)
  /\ \A i \in 1 .. Len(whLog) :
       IF i % 2 = 1 THEN whLog[i].kind = "post"
       ELSE whLog[i] = [kind |-> "sleep", value |-> 1000 * i]
  /\ Len(whLog) <= 5
  /\ whPc = "done" =>
       /\ whLog # <<>> => whLog[Len(whLog)].kind = "post"
       /\ whResult = "success" <=>
            (~whUrl \/ \E i \in WhPosts : WebhookOk(whLog[i].value))
       /\ whResult \in {"success", "failure"}
       /\ ~whUrl => whLog = <<>>

\* C31 witness: the third POST got a 2xx answer after two failed ones.
C31_Witness ==
  /\ whPc = "done" /\ whResult = "success" /\ Len(whLog) = 5
  /\ ~WebhookOk(whLog[1].value) /\ ~WebhookOk(whLog[3].value)

\* C32: an attempt returns only out of the sendWebhook of one terminal
\* webhook, the completion webhook with a result that is a success and the
\* failure webhook with one that is not, and once a terminal webhook was
\* dispatched no other one is dispatched by the attempt.
C32_OneTerminalWebhook ==
  [][/\ (pStage # "returned" /\ pStage' = "returned") =>
          \/ pStage = "completion" /\ pResult' = "success"
          \/ pStage = "failure" /\ pResult' = "failure"
     /\ pStage \in {"completion", "failure"} => pStage' \in {pStage, "returned"}
     /\ pStage \in {"returned", "done"} => pStage' \in {"returned", "done"}]_vars

\* C32 witness: an attempt whose transcodes all failed has returned after its
\* failure webhook reached the endpoint.
C32_Witness ==
  /\ pStage = "returned" /\ pResult = "failure" /\ ~anySucceeded /\ cvPc = "done"
  /\ \E i \in 1 .. Len(delivered) : delivered[i][1] = "terminal"

\* C33: the HLS stage gives a variant and a playlist URL only to a quality
\* whose transcode succeeded in this attempt.
C33_HlsOnlySuccessful ==
  \A q \in Quality : q \in oHlsUrls => oResults[q] = "ok"

\* The height in the name of a quality.
HeightOf(q) ==
  CASE q = "144p" -> 144 [] q = "240p" -> 240 [] q = "360p" -> 360
    [] q = "480p" -> 480

\* C34: a master playlist that was written lists exactly the qualities whose
\* segmentation gave segments, each once and by ascending height, and it is
\* written only when there is such a quality.
C34_MasterPlaylist ==
  mpMaster.written =>
    LET v == mpMaster.variants
    IN  /\ {v[i] : i \in 1 .. Len(v)} = {q \in Quality : mpOutcome[q] = "ok"}
        /\ \A i, k \in 1 .. Len(v) : i < k => HeightOf(v[i]) < HeightOf(v[k])
        /\ Len(v) >= 1

\* C34 witness: a master playlist of three variants, the 240p segmentation
\* having failed.
C34_Witness ==
  /\ mpMaster.written /\ Len(mpMaster.variants) = 3
  /\ mpOutcome["240p"] = "error"

\* The place of a stage in the order cleanup, source (with the download when
\* it is needed), validation, transcode 480p, 360p, 240p, 144p, HLS,
\* thumbnail, completion.
StageRank(pc, index) ==
  CASE pc = "idle" -> 0
    [] pc = "cleanup" -> 1
    [] pc = "source" -> 2
    [] pc = "validate" -> 3
    [] pc = "transcode" -> 3 + index
    [] pc = "hls" -> 8
    [] pc = "thumbnail" -> 9
    [] pc = "complete" -> 10
    [] pc = "done" -> 11

\* C35: within one attempt a stage begins only when the stage before it in
\* the order has ended (the thumbnail stage is left out when no thumbnail is
\* asked for), the transcodes run one at a time in the order 480p, 360p,
\* 240p, 144p, and the attempt ends early only as a failure.
C35_StagesInOrder ==
  [][LET a == StageRank(oPc, oIndex)
         b == StageRank(oPc', oIndex')
     IN  a # b =>
           \/ b = a + 1
           \/ oPc = "hls" /\ oPc' = "complete" /\ ~oWantThumb
           \/ oPc' = "done" /\ oOutcome' = "failure"]_vars

\* C35 witness: an attempt went through every stage.
C35_Witness ==
  /\ oPc = "done" /\ oOutcome = "success" /\ oHls = "ok" /\ oThumb = "ok"
  /\ \A q \in Quality : oResults[q] = "ok"

\* C36: a fetch follows at most one 301/302 redirect, so that it makes at
\* most two requests.
C36_OneRedirectLevel == dlRedirects <= 1

\* The allowlist admits the host as the rule says: by `*`, by an entry equal
\* to the host, or by an entry `*.s` with the host equal to s or ending
\* with `.s`.
ListAdmits(h, list) ==
  \/ AllowStar \in list
  \/ AllowPlain(h) \in list
  \/ \E entry \in list :
       entry.form = "wild" /\ (h = entry.host \/ EndsWithDot(h, entry.host))

\* C37: a host outside the private ranges passes the allowlist check
\* exactly when the allowlist admits it by that rule.
C37_AllowlistRule ==
  /\ dlPc = "request" => ListAdmits(dlUrl.host, dlAllow)
  /\ (dlPc = "done" /\ dlResult = "Domain not in allowed list")
       => ~ListAdmits(dlUrl.host, dlAllow)

\* C38: an enqueue call that has answered with a failure leaves no job of its
\* own in the broker: when the timeout answers, the call has not yet sent its
\* queue.add, and a call that has failed never adds a job afterwards.
C38_FailedEnqueueLeavesNoJob ==
  [][\A c \in Callers :
       /\ (eResult[c] = "none" /\ eResult'[c] \in {"timeout", "rejected"})
            => epc[c] # "count"
       /\ (eResult[c] \in {"timeout", "rejected"} /\ epc[c] = "add"
             /\ epc'[c] = "count")
            => jobState'[eJobId[c]] = jobState[eJobId[c]]]_vars


\* C39: after shutdown has begun no job's pipeline is started: no handler
\* invocation goes on to processJob while the shutdown flag is set, and a
\* job handed to the handler under the flag leaves it with no webhook sent
\* and no progress written for that job.
C39_NoPipelineAfterShutdown ==
  [][isShuttingDown =>
       \A i \in WorkerIds :
         /\ wPhase'[i] = "processing" => wPhase[i] = "processing"
         /\ (wPhase[i] = "fetched" /\ wPhase'[i] # "fetched") =>
              /\ completionWebhooks'[wJob[i]] = completionWebhooks[wJob[i]]
              /\ failureWebhooks'[wJob[i]] = failureWebhooks[wJob[i]]
              /\ jobProgress'[wJob[i]] = jobProgress[wJob[i]]]_vars

\* A job was handed to the handler after the flag was set and was refused:
\* it is failed with the handler's error and no webhook was ever sent for it.
C39_Witness ==
  /\ isShuttingDown
  /\ \E j \in JobIds :
       /\ failedReason[j] = "Worker is shutting down"
       /\ completionWebhooks[j] = 0 /\ failureWebhooks[j] = 0
====
